---- MODULE Spec2Model ----
(***************************************************************************)
(* Printer monitoring backend: telemetry ingestion, monthly cuts and the   *)
(* handlers around them (routes/impresoras.js, server.js).                 *)
(*                                                                         *)
(* The store is four collections (empresas, impresoras, latest, cortes).   *)
(* A handler that awaits several store operations is a small process: one  *)
(* action per store operation, each followed by the synchronous code that  *)
(* runs until the next await.  Requests of different slots interleave at   *)
(* these points, as they do on the Node event loop.                        *)
(***************************************************************************)
EXTENDS Integers, Sequences, FiniteSets, TLC

\* ---------------------------------------------------------------- bounds
MaxCortes == 3          \* CortesMensuales documents a run of racing
                        \* register-cuts constructs
MaxCadena == 2          \* CortesMensuales documents the other runs construct
MaxNow == 2             \* last instant of the wall clock
MaxCount == 1           \* largest page counter an agent reports
MaxCarpetas == 3        \* Carpeta documents a run creates

\* Process-wide staleness threshold, in clock instants.
ONLINE_STALE_MS == 1

\* ObjectIds of the tenants of the initial store and of the Impresora
\* documents a run may insert; request slots of the register-cut handler.
EmpresaIds == {1}
ImpresoraIds == {1, 2}
RcSlots == {1, 2}
CorteIds == 1..MaxCortes
Instantes == 1..MaxNow
\* Clock instants per calendar day: instants 1, 2, 3 fall on days 0, 1, 1.
TicksPorDia == 2

\* ------------------------------------------------------- JavaScript values
\* A missing string field (null / undefined).
Nulo == "<nulo>"
\* A missing number (null).
JsNull == [t |-> "null"]
Num(n) == [t |-> "number", v |-> n]
\* No document: the result of a findOne / findById that matched nothing.
NoDoc == [_id |-> 0]

\* `!!s` for a string-or-null value.
Truthy(s) == s # Nulo /\ s # ""
\* `s || alt` for a string-or-null value.
StrOr(s, alt) == IF Truthy(s) THEN s ELSE alt
\* `x || 0` for a number-or-null value (0 and null both give 0).
OrCero(x) == IF x.t = "number" /\ x.v # 0 THEN x.v ELSE 0
\* `typeof x === 'number' && !Number.isNaN(x)`
EsNumero(x) == x.t = "number"
\* Math.max(a, b)
Max(a, b) == IF a >= b THEN a ELSE b
\* Date.prototype.toLocaleDateString: the calendar day of an instant.
ToLocaleDateString(t) == t \div TicksPorDia

\* ------------------------------------------------------------ input sets
\* generarApiKey: a key no other tenant holds.
ApiKeyDe(e) == IF e = 1 THEN "emp_a" ELSE IF e = 2 THEN "emp_b" ELSE "emp_c"
\* Bearer tokens an agent sends: a tenant's key, an unknown key, or none.
Tokens == {ApiKeyDe(e) : e \in EmpresaIds} \cup {"emp_x", Nulo}
\* Page counters an agent reports: none, or any number from -1 up.
PageCounts == {JsNull} \cup {Num(n) : n \in (0 - 1)..MaxCount}
Toner15 == [name |-> "k", level |-> 15, max |-> 100]
Toner25 == [name |-> "c", level |-> 25, max |-> 100]
SuppliesInputs == { << >>, <<Toner25, Toner15>> }

\* A body an agent posts.  The fields the handler defaults to null and that
\* only feed identity strings (pageCountMono, pageCountColor, sysName,
\* sysDescr, printerName, model, ciudad) are left at their defaults.
Body(host, serial, pageCount, supplies, ts) ==
  [host |-> host, serial |-> serial, pageCount |-> pageCount,
   pageCountMono |-> JsNull, pageCountColor |-> JsNull, supplies |-> supplies,
   sysName |-> Nulo, sysDescr |-> Nulo, printerName |-> Nulo, model |-> Nulo,
   ciudad |-> Nulo, ts |-> ts]

\* Reports of one serial-less printer (or with the host missing), stamped by
\* the handler's default ts: every counter and supply list.
BodiesDatos(t) ==
  {Body(h, Nulo, c, s, t) : h \in {"h1", Nulo}, c \in PageCounts,
                            s \in SuppliesInputs}
\* Reports of one serial-less printer that answered SNMP (a counter, a
\* supply) or did not (nothing), stamped by the agent with any instant up to
\* the present.
BodiesOnline(t) ==
  {Body("h1", Nulo, c, sp, ts) : c \in {JsNull, Num(1)},
                                 sp \in {<< >>, <<Toner15>>}, ts \in 1..t}
\* Supplies an agent reports: with and without max, around the 20 % mark.
Toner20 == [name |-> "m", level |-> 20, max |-> 100]
Toner30De200 == [name |-> "d", level |-> 30, max |-> 200]
Toner18SinMax == [name |-> "y", level |-> 18]
Toner21SinMax == [name |-> "z", level |-> 21]
Toner18MaxCero == [name |-> "w", level |-> 18, max |-> 0]
SinNivel == [name |-> "v", max |-> 100]
SuppliesToner ==
  { << >>, <<Toner15>>, <<Toner25>>, <<Toner20>>, <<Toner30De200>>,
    <<Toner18SinMax>>, <<Toner21SinMax>>, <<Toner18MaxCero>>, <<SinNivel>>,
    <<Toner25, Toner15>>, <<Toner25, Toner21SinMax>> }
\* The fields of a body that hold a string.
CamposTexto == {"serial", "model", "sysName", "sysDescr", "printerName",
                "ciudad"}
\* Reports of one printer that carry at most one of the string fields, a
\* counter or none, a supply or none; and reports with each supply list.
BodiesSenales(t) ==
  {[Body("h1", Nulo, c, sp, t) EXCEPT ![campo] = valor] :
     campo \in CamposTexto, valor \in {Nulo, "x"}, c \in {JsNull, Num(1)},
     sp \in {<< >>, <<Toner25>>}}
  \cup {Body("h1", Nulo, JsNull, sp, t) : sp \in SuppliesToner}
\* Two reports of one printer: each counter comes with its own supplies.
BodiesPareja(t) ==
  {Body("h1", Nulo, Num(1), <<Toner25>>, t),
   Body("h1", Nulo, Num(2), <<Toner15>>, t)}
\* Reports of a printer on one host, with a serial or none: agents of
\* different tenants send the same ones.
BodiesTenants(t) ==
  {Body("h1", sr, Num(1), << >>, t) : sr \in {Nulo, "s1"}}
\* Reports of printers on two hosts, with one of two serials or none.
BodiesIdentidad(t) ==
  {Body(h, sr, Num(1), << >>, t) : h \in {"h1", "h2"},
                                   sr \in {Nulo, "s1", "s2"}}
\* Reports of one serial-less printer with a growing counter.
BodiesCarrera(t) ==
  {Body(h, Nulo, c, <<Toner25, Toner15>>, t) : h \in {"h1", Nulo},
                                     c \in {Num(1), Num(2)}}

VARIABLES
  empresas,        \* Empresa collection: set of [_id, apiKey]
  impresoras,      \* Impresora collection
  latest,          \* ImpresoraLatest collection
  cortes,          \* CortesMensuales collection
  now,             \* wall clock (Date.now())
  nextImpresoraId, \* next ObjectId of an Impresora
  nextCorteId,     \* next ObjectId of a CortesMensuales
  ing,             \* the ingestion request in flight
  rc,              \* register-cut requests in flight, by slot
  usuarios,        \* Usuario collection
  carpetas,        \* Carpeta collection
  asignaciones,    \* AsignacionCarpeta collection
  nextCarpetaId,   \* next ObjectId of a Carpeta
  sinIngesta,      \* history: per printer, the Cut built from a read of its
                   \* LatestState that no ingestion has overwritten since
  out              \* what the last step sent or logged (response, debug log)

vars == <<empresas, impresoras, latest, cortes, now, nextImpresoraId,
          nextCorteId, ing, rc, usuarios, carpetas, asignaciones,
          nextCarpetaId, sinIngesta, out>>

\* ------------------------------------------------------------------ store
EmpresaPorApiKey(k) ==
  IF \E e \in empresas : e.apiKey = k
  THEN CHOOSE e \in empresas : e.apiKey = k ELSE NoDoc
ImpresoraPorId(id) ==
  IF \E d \in impresoras : d._id = id
  THEN CHOOSE d \in impresoras : d._id = id ELSE NoDoc
CortePorId(id) ==
  IF \E c \in cortes : c._id = id
  THEN CHOOSE c \in cortes : c._id = id ELSE NoDoc
LatestDe(pid) == {l \in latest : l.printerId = pid}

IngIdle == [pc |-> "idle"]
RcIdle == [pc |-> "idle"]
\* The step sent no response and logged nothing.
Silencio == [ruta |-> "none"]

Init ==
  /\ empresas = {[_id |-> e, apiKey |-> ApiKeyDe(e)] : e \in EmpresaIds}
  /\ impresoras = {}
  /\ latest = {}
  /\ cortes = {}
  /\ now = 1
  /\ nextImpresoraId = 1
  /\ nextCorteId = 1
  /\ ing = IngIdle
  /\ rc = [r \in RcSlots |-> RcIdle]
  /\ usuarios = {}
  /\ carpetas = {}
  /\ asignaciones = {}
  /\ nextCarpetaId = 1
  /\ sinIngesta = [p \in ImpresoraIds |-> 0]
  /\ out = Silencio

\* A store with two tenants.
EmpresaIdsDos == {1, 2}
TokensDos == {ApiKeyDe(e) : e \in EmpresaIdsDos}
InitDos ==
  /\ empresas = {[_id |-> e, apiKey |-> ApiKeyDe(e)] : e \in EmpresaIdsDos}
  /\ impresoras = {}
  /\ latest = {}
  /\ cortes = {}
  /\ now = 1
  /\ nextImpresoraId = 1
  /\ nextCorteId = 1
  /\ ing = IngIdle
  /\ rc = [r \in RcSlots |-> RcIdle]
  /\ usuarios = {}
  /\ carpetas = {}
  /\ asignaciones = {}
  /\ nextCarpetaId = 1
  /\ sinIngesta = [p \in ImpresoraIds |-> 0]
  /\ out = Silencio

\* The wall clock advances between any two steps, up to instant m.
TickHasta(m) ==
  /\ now < m
  /\ now' = now + 1
  /\ out' = Silencio
  /\ UNCHANGED <<usuarios, carpetas, asignaciones, nextCarpetaId>>
  /\ UNCHANGED <<empresas, impresoras, latest, cortes, nextImpresoraId,
                 nextCorteId, ing, rc, sinIngesta>>

Tick == TickHasta(MaxNow)

\* ------------------------------------------- POST /api/metrics/impresoras
\* snmpOk (the identity strings the expression tests: sysName, sysDescr,
\* serial, model).
SnmpOk(b) ==
  \/ EsNumero(b.pageCount)
  \/ Len(b.supplies) > 0
  \/ Truthy(b.sysName) \/ Truthy(b.sysDescr) \/ Truthy(b.serial) \/ Truthy(b.model)

\* isFinite(Number(s?.campo)): the entry reports the field (a missing field
\* is undefined, and Number(undefined) is NaN).
Finito(s, campo) == campo \in DOMAIN s

\* lowToner that compares the level alone, whatever max says.
LowToner_sinMax(b) ==
  \E i \in 1..Len(b.supplies) :
    LET s == b.supplies[i] IN Finito(s, "level") /\ s.level <= 20

\* lowToner: some supply at or below 20 % (level/max*100 <= 20, compared
\* exactly as level*100 <= 20*max for max > 0), or at a level <= 20 when max
\* is missing or not positive.
LowToner(b) ==
  \E i \in 1..Len(b.supplies) :
    LET s == b.supplies[i] IN
      IF Finito(s, "level") /\ Finito(s, "max") /\ s.max > 0
      THEN s.level * 100 <= 20 * s.max
      ELSE Finito(s, "level") /\ s.level <= 20

\* The filter of the Impresora upsert without the tenant: claveOr alone.
CoincideClave_sinTenant(d, empresaId, b) ==
  IF Truthy(b.serial) THEN d.serial = b.serial \/ d.host = b.host
  ELSE d.host = b.host

\* The filter { empresaId, ...claveOr } of the Impresora upsert.
CoincideClave(d, empresaId, b) ==
  /\ d.empresaId = empresaId
  /\ IF Truthy(b.serial) THEN d.serial = b.serial \/ d.host = b.host
     ELSE d.host = b.host

\* setBase
SetBase(empresaId, b) ==
  [empresaId |-> empresaId, ciudad |-> StrOr(b.ciudad, Nulo), host |-> b.host,
   serial |-> b.serial, sysName |-> b.sysName, sysDescr |-> b.sysDescr,
   printerName |-> b.printerName, model |-> b.model]

\* A $set of the ImpresoraLatest upsert that also clears the cut pointer.
SetLatest_limpiaPuntero(b) ==
  [lastPageCount |-> IF EsNumero(b.pageCount) THEN b.pageCount ELSE JsNull,
   lastPageMono |-> IF EsNumero(b.pageCountMono) THEN b.pageCountMono ELSE JsNull,
   lastPageColor |-> IF EsNumero(b.pageCountColor) THEN b.pageCountColor ELSE JsNull,
   lastSupplies |-> b.supplies,
   lastSeenAt |-> b.ts,
   lowToner |-> LowToner(b),
   online |-> SnmpOk(b),
   ultimoCorteId |-> 0,
   lastCutDate |-> 0]

\* The $set of the ImpresoraLatest upsert.
SetLatest(b) ==
  [lastPageCount |-> IF EsNumero(b.pageCount) THEN b.pageCount ELSE JsNull,
   lastPageMono |-> IF EsNumero(b.pageCountMono) THEN b.pageCountMono ELSE JsNull,
   lastPageColor |-> IF EsNumero(b.pageCountColor) THEN b.pageCountColor ELSE JsNull,
   lastSupplies |-> b.supplies,
   lastSeenAt |-> b.ts,
   lowToner |-> LowToner(b),
   online |-> SnmpOk(b)]

\* The answer of the ingestion handler.
IngestaRes(status) == [ruta |-> "metrics", status |-> status]

\* IngestaAutenticar without the host check.
IngestaAutenticar_sinHost(token, b) ==
  /\ ing.pc = "idle"
  /\ IF token = Nulo
     THEN ing' = IngIdle /\ out' = IngestaRes(401)
     ELSE IF EmpresaPorApiKey(token) = NoDoc
     THEN ing' = IngIdle /\ out' = IngestaRes(403)
     ELSE /\ ing' = [pc |-> "upsertImpresora", body |-> b,
                     empresaId |-> EmpresaPorApiKey(token)._id]
          /\ out' = Silencio
  /\ UNCHANGED <<usuarios, carpetas, asignaciones, nextCarpetaId>>
  /\ UNCHANGED <<empresas, impresoras, latest, cortes, now, nextImpresoraId,
                 nextCorteId, rc, sinIngesta>>

\* Token check, tenant lookup (Empresa.findOne) and the host check.
IngestaAutenticar(token, b) ==
  /\ ing.pc = "idle"
  /\ IF token = Nulo
     THEN ing' = IngIdle /\ out' = IngestaRes(401)
     ELSE IF EmpresaPorApiKey(token) = NoDoc
     THEN ing' = IngIdle /\ out' = IngestaRes(403)
     ELSE IF ~Truthy(b.host)
     THEN ing' = IngIdle /\ out' = IngestaRes(400)
     ELSE /\ ing' = [pc |-> "upsertImpresora", body |-> b,
                     empresaId |-> EmpresaPorApiKey(token)._id]
          /\ out' = Silencio
  /\ UNCHANGED <<usuarios, carpetas, asignaciones, nextCarpetaId>>
  /\ UNCHANGED <<empresas, impresoras, latest, cortes, now, nextImpresoraId,
                 nextCorteId, rc, sinIngesta>>

\* Impresora.findOneAndUpdate(..., { new: true, upsert: true }); createdAt is
\* written on insert and read by no handler, and is not kept.
IngestaUpsertImpresora ==
  /\ ing.pc = "upsertImpresora"
  /\ LET b == ing.body
         hits == {d \in impresoras : CoincideClave(d, ing.empresaId, b)}
     IN IF hits # {}
        THEN \E d \in hits :
               /\ impresoras' = (impresoras \ {d}) \cup
                     {[_id |-> d._id] @@ SetBase(ing.empresaId, b)}
               /\ ing' = [pc |-> "upsertLatest", body |-> b,
                          empresaId |-> ing.empresaId, printerId |-> d._id]
               /\ UNCHANGED nextImpresoraId
        ELSE /\ nextImpresoraId \in ImpresoraIds
             /\ impresoras' = impresoras \cup
                   {[_id |-> nextImpresoraId] @@ SetBase(ing.empresaId, b)}
             /\ ing' = [pc |-> "upsertLatest", body |-> b,
                        empresaId |-> ing.empresaId,
                        printerId |-> nextImpresoraId]
             /\ nextImpresoraId' = nextImpresoraId + 1
  /\ out' = Silencio
  /\ UNCHANGED <<usuarios, carpetas, asignaciones, nextCarpetaId>>
  /\ UNCHANGED <<empresas, latest, cortes, now, nextCorteId, rc, sinIngesta>>

\* History kept beside the upsert: the LatestState a register-cut has read
\* and not yet used is no longer the stored one.
RcTrasIngesta(pid) ==
  [r \in RcSlots |->
     IF rc[r].pc = "findCorte" /\ rc[r].printerId = pid
     THEN [rc[r] EXCEPT !.ingestaTrasLeer = TRUE] ELSE rc[r]]

\* IngestaUpsertLatest that keeps a stored LatestState seen later than the
\* report.
IngestaUpsertLatest_protegeOrden ==
  /\ ing.pc = "upsertLatest"
  /\ LET pid == ing.printerId
         hits == LatestDe(pid)
     IN /\ IF hits # {}
           THEN \E l \in hits :
                  latest' = IF ing.body.ts < l.lastSeenAt THEN latest
                            ELSE (latest \ {l}) \cup {SetLatest(ing.body) @@ l}
           ELSE latest' = latest \cup
                  {SetLatest(ing.body) @@
                   [printerId |-> pid, ultimoCorteId |-> 0, lastCutDate |-> 0]}
        /\ sinIngesta' = [sinIngesta EXCEPT ![pid] = 0]
        /\ rc' = RcTrasIngesta(pid)
  /\ ing' = IngIdle
  /\ out' = IngestaRes(200)
  /\ UNCHANGED <<usuarios, carpetas, asignaciones, nextCarpetaId>>
  /\ UNCHANGED <<empresas, impresoras, cortes, now, nextImpresoraId,
                 nextCorteId>>

\* ImpresoraLatest.findOneAndUpdate({ printerId }, { $set }, { upsert: true })
\* and the answer.
IngestaUpsertLatest ==
  /\ ing.pc = "upsertLatest"
  /\ LET pid == ing.printerId
         hits == LatestDe(pid)
     IN /\ IF hits # {}
           THEN \E l \in hits :
                  latest' = (latest \ {l}) \cup {SetLatest(ing.body) @@ l}
           ELSE latest' = latest \cup
                  {SetLatest(ing.body) @@
                   [printerId |-> pid, ultimoCorteId |-> 0, lastCutDate |-> 0]}
        /\ sinIngesta' = [sinIngesta EXCEPT ![pid] = 0]
        /\ rc' = RcTrasIngesta(pid)
  /\ ing' = IngIdle
  /\ out' = IngestaRes(200)
  /\ UNCHANGED <<usuarios, carpetas, asignaciones, nextCarpetaId>>
  /\ UNCHANGED <<empresas, impresoras, cortes, now, nextImpresoraId,
                 nextCorteId>>

\* A store operation of the ingestion rejects: the catch block answers 500.
IngestaFalla ==
  /\ ing.pc \in {"upsertImpresora", "upsertLatest"}
  /\ ing' = IngIdle
  /\ out' = IngestaRes(500)
  /\ UNCHANGED <<usuarios, carpetas, asignaciones, nextCarpetaId>>
  /\ UNCHANGED <<empresas, impresoras, latest, cortes, now, nextImpresoraId,
                 nextCorteId, rc, sinIngesta>>

\* ------------------------------- POST /api/impresoras/:id/registrar-corte
\* calcularPeriodoCorte without the clamp: the total is the bare difference.
calcularPeriodoCorte_sinClamp(ultimoCorte, contadoresActuales) ==
  LET contadorActual == OrCero(contadoresActuales.lastPageCount) IN
  IF ultimoCorte = NoDoc
  THEN [contadorInicioGeneral |-> 0,
        contadorFinGeneral |-> contadorActual,
        totalPaginasGeneral |-> contadorActual,
        periodo |-> [texto |-> "Desde instalación", inicio |-> 0, fin |-> 0],
        esPrimerCorte |-> TRUE]
  ELSE [contadorInicioGeneral |-> ultimoCorte.contadorFinGeneral,
        contadorFinGeneral |-> contadorActual,
        totalPaginasGeneral |-> contadorActual - ultimoCorte.contadorFinGeneral,
        periodo |-> [texto |-> "rango",
                     inicio |-> ToLocaleDateString(ultimoCorte.fechaCorte),
                     fin |-> ToLocaleDateString(now)],
        esPrimerCorte |-> FALSE]

\* calcularPeriodoCorte whose first cut starts at the current counter.
calcularPeriodoCorte_primerInicio(ultimoCorte, contadoresActuales) ==
  LET contadorActual == OrCero(contadoresActuales.lastPageCount) IN
  IF ultimoCorte = NoDoc
  THEN [contadorInicioGeneral |-> contadorActual,
        contadorFinGeneral |-> contadorActual,
        totalPaginasGeneral |-> contadorActual,
        periodo |-> [texto |-> "Desde instalación", inicio |-> 0, fin |-> 0],
        esPrimerCorte |-> TRUE]
  ELSE [contadorInicioGeneral |-> ultimoCorte.contadorFinGeneral,
        contadorFinGeneral |-> contadorActual,
        totalPaginasGeneral |->
          Max(0, contadorActual - ultimoCorte.contadorFinGeneral),
        periodo |-> [texto |-> "rango",
                     inicio |-> ToLocaleDateString(ultimoCorte.fechaCorte),
                     fin |-> ToLocaleDateString(now)],
        esPrimerCorte |-> FALSE]

\* calcularPeriodoCorte that starts every period at zero.
calcularPeriodoCorte_inicioCero(ultimoCorte, contadoresActuales) ==
  LET contadorActual == OrCero(contadoresActuales.lastPageCount) IN
  IF ultimoCorte = NoDoc
  THEN [contadorInicioGeneral |-> 0,
        contadorFinGeneral |-> contadorActual,
        totalPaginasGeneral |-> contadorActual,
        periodo |-> [texto |-> "Desde instalación", inicio |-> 0, fin |-> 0],
        esPrimerCorte |-> TRUE]
  ELSE [contadorInicioGeneral |-> 0,
        contadorFinGeneral |-> contadorActual,
        totalPaginasGeneral |-> Max(0, contadorActual),
        periodo |-> [texto |-> "rango",
                     inicio |-> ToLocaleDateString(ultimoCorte.fechaCorte),
                     fin |-> ToLocaleDateString(now)],
        esPrimerCorte |-> FALSE]

\* calcularPeriodoCorte(ultimoCorte, contadoresActuales); `now` is new Date().
calcularPeriodoCorte(ultimoCorte, contadoresActuales) ==
  LET contadorActual == OrCero(contadoresActuales.lastPageCount) IN
  IF ultimoCorte = NoDoc
  THEN [contadorInicioGeneral |-> 0,
        contadorFinGeneral |-> contadorActual,
        totalPaginasGeneral |-> contadorActual,
        periodo |-> [texto |-> "Desde instalación", inicio |-> 0, fin |-> 0],
        esPrimerCorte |-> TRUE]
  ELSE LET contadorInicioGeneral == OrCero(Num(ultimoCorte.contadorFinGeneral)) IN
       [contadorInicioGeneral |-> contadorInicioGeneral,
        contadorFinGeneral |-> contadorActual,
        totalPaginasGeneral |-> Max(0, contadorActual - contadorInicioGeneral),
        periodo |-> [texto |-> "rango",
                     inicio |-> ToLocaleDateString(ultimoCorte.fechaCorte),
                     fin |-> ToLocaleDateString(now)],
        esPrimerCorte |-> FALSE]

\* new CortesMensuales whose suppliesFin comes from a second read of the
\* LatestState, made when the document is constructed.
NuevoCorte_segundaLectura(id, impresora, lat, ultimoCorte, calculos, ahora) ==
  [_id |-> id,
   printerId |-> impresora._id,
   empresaId |-> impresora.empresaId,
   fechaCorte |-> ahora,
   contadorInicioGeneral |-> calculos.contadorInicioGeneral,
   contadorFinGeneral |-> calculos.contadorFinGeneral,
   totalPaginasGeneral |-> calculos.totalPaginasGeneral,
   periodo |-> calculos.periodo,
   suppliesInicio |-> IF ultimoCorte = NoDoc THEN << >> ELSE ultimoCorte.suppliesFin,
   suppliesFin |-> IF LatestDe(impresora._id) = {} THEN lat.lastSupplies
                   ELSE (CHOOSE l \in LatestDe(impresora._id) : TRUE).lastSupplies,
   nombreImpresora |-> StrOr(impresora.printerName,
                             StrOr(impresora.sysName, impresora.host)),
   modeloImpresora |-> StrOr(impresora.model, StrOr(impresora.sysDescr, ""))]

\* new CortesMensuales whose suppliesInicio is the current snapshot.
NuevoCorte_suppliesActuales(id, impresora, lat, ultimoCorte, calculos, ahora) ==
  [_id |-> id,
   printerId |-> impresora._id,
   empresaId |-> impresora.empresaId,
   fechaCorte |-> ahora,
   contadorInicioGeneral |-> calculos.contadorInicioGeneral,
   contadorFinGeneral |-> calculos.contadorFinGeneral,
   totalPaginasGeneral |-> calculos.totalPaginasGeneral,
   periodo |-> calculos.periodo,
   suppliesInicio |-> IF ultimoCorte = NoDoc THEN << >> ELSE lat.lastSupplies,
   suppliesFin |-> lat.lastSupplies,
   nombreImpresora |-> StrOr(impresora.printerName,
                             StrOr(impresora.sysName, impresora.host)),
   modeloImpresora |-> StrOr(impresora.model, StrOr(impresora.sysDescr, ""))]

\* new CortesMensuales({...}); mes and año are functions of fechaCorte and
\* are not kept apart from it.
NuevoCorte(id, impresora, lat, ultimoCorte, calculos, ahora) ==
  [_id |-> id,
   printerId |-> impresora._id,
   empresaId |-> impresora.empresaId,
   fechaCorte |-> ahora,
   contadorInicioGeneral |-> calculos.contadorInicioGeneral,
   contadorFinGeneral |-> calculos.contadorFinGeneral,
   totalPaginasGeneral |-> calculos.totalPaginasGeneral,
   periodo |-> calculos.periodo,
   suppliesInicio |-> IF ultimoCorte = NoDoc THEN << >> ELSE ultimoCorte.suppliesFin,
   suppliesFin |-> lat.lastSupplies,
   nombreImpresora |-> StrOr(impresora.printerName,
                             StrOr(impresora.sysName, impresora.host)),
   modeloImpresora |-> StrOr(impresora.model, StrOr(impresora.sysDescr, ""))]

\* console.log('DEBUG CORTE', {...})
DebugCorte(q, lat, ultimoCorte, calculos) ==
  [ruta |-> "DEBUG CORTE",
   printerId |-> q.printerId,
   tieneUltimoCorte |-> ultimoCorte # NoDoc,
   ultimoCorteId |-> lat.ultimoCorteId,
   contadoresActuales |-> [lastPageMono |-> lat.lastPageMono,
                           lastPageColor |-> lat.lastPageColor,
                           lastPageCount |-> lat.lastPageCount],
   calculosResultado |-> calculos]

\* Lines 550-579, once ultimoCorte is known: the request goes on to the save
\* holding the new document (ahora is its fechaCorte; the locals the rest of
\* the handler reads again, calculos and latest.lastPageCount || 0, are
\* fields of it).
RcConstruir(q, lat, ultimoCorte) ==
  [pc |-> "save", printerId |-> q.printerId,
   nuevoCorte |-> NuevoCorte(nextCorteId, q.impresora, lat, ultimoCorte,
                             calcularPeriodoCorte(ultimoCorte, lat), now)]

\* History kept beside RcConstruir: the new Cut reflects the stored
\* LatestState unless an ingestion overwrote it after it was read.
SinIngestaTrasConstruir(pid, ingestaTrasLeer) ==
  IF ingestaTrasLeer THEN sinIngesta
  ELSE [sinIngesta EXCEPT ![pid] = nextCorteId]

\* Requests that will still construct a document.
RcPorConstruir == {q \in RcSlots : rc[q].pc \in {"findLatest", "findCorte"}}

\* The answers of the register-cut handler.
RcRes(status, printerId) ==
  [ruta |-> "registrar-corte", status |-> status, printerId |-> printerId]
RcResOk(q) ==
  [ruta |-> "registrar-corte", status |-> 200, printerId |-> q.printerId,
   corteId |-> q.nuevoCorte._id,
   datos |-> [periodo |-> <<q.nuevoCorte.contadorInicioGeneral,
                            q.nuevoCorte.contadorFinGeneral>>,
              totalPaginas |-> q.nuevoCorte.totalPaginasGeneral,
              fecha |-> ToLocaleDateString(q.nuevoCorte.fechaCorte)]]

\* Impresora.findById(printerId)
RegistrarCorteFindImpresora(r, id) ==
  /\ rc[r].pc = "idle"
  /\ \A q \in RcSlots : q < r => rc[q].pc # "idle"
  /\ nextCorteId + Cardinality(RcPorConstruir) <= MaxCortes
  /\ IF ImpresoraPorId(id) = NoDoc
     THEN UNCHANGED rc /\ out' = RcRes(404, id)
     ELSE /\ rc' = [rc EXCEPT ![r] = [pc |-> "findLatest", printerId |-> id,
                                      impresora |-> ImpresoraPorId(id)]]
          /\ out' = Silencio
  /\ UNCHANGED <<usuarios, carpetas, asignaciones, nextCarpetaId>>
  /\ UNCHANGED <<empresas, impresoras, latest, cortes, now, nextImpresoraId,
                 nextCorteId, ing, sinIngesta>>

\* RegistrarCorteFindLatest that goes on with default counters when the
\* printer has no LatestState.
RegistrarCorteFindLatest_fabrica(r) ==
  /\ rc[r].pc = "findLatest"
  /\ LET porDefecto == [printerId |-> rc[r].printerId, ultimoCorteId |-> 0,
                        lastCutDate |-> 0, lastPageCount |-> JsNull,
                        lastPageMono |-> JsNull, lastPageColor |-> JsNull,
                        lastSupplies |-> << >>, lastSeenAt |-> 0,
                        lowToner |-> FALSE, online |-> FALSE]
     IN \E l \in (IF LatestDe(rc[r].printerId) = {} THEN {porDefecto}
                  ELSE LatestDe(rc[r].printerId)) :
            IF l.ultimoCorteId # 0
            THEN /\ rc' = [rc EXCEPT ![r] =
                             [pc |-> "findCorte", printerId |-> rc[r].printerId,
                              impresora |-> rc[r].impresora, latest |-> l,
                              ingestaTrasLeer |-> FALSE]]
                 /\ out' = Silencio
                 /\ UNCHANGED <<sinIngesta, nextCorteId>>
            ELSE /\ rc' = [rc EXCEPT ![r] = RcConstruir(rc[r], l, NoDoc)]
                 /\ out' = DebugCorte(rc[r], l, NoDoc,
                                      calcularPeriodoCorte(NoDoc, l))
                 /\ sinIngesta' = SinIngestaTrasConstruir(rc[r].printerId, FALSE)
                 /\ nextCorteId' = nextCorteId + 1
  /\ UNCHANGED <<usuarios, carpetas, asignaciones, nextCarpetaId>>
  /\ UNCHANGED <<empresas, impresoras, latest, cortes, now, nextImpresoraId,
                 ing>>

\* ImpresoraLatest.findOne({ printerId }); with no ultimoCorteId the handler
\* runs on to the save.
RegistrarCorteFindLatest(r) ==
  /\ rc[r].pc = "findLatest"
  /\ IF LatestDe(rc[r].printerId) = {}
     THEN /\ rc' = [rc EXCEPT ![r] = RcIdle]
          /\ out' = RcRes(404, rc[r].printerId)
          /\ UNCHANGED <<sinIngesta, nextCorteId>>
     ELSE \E l \in LatestDe(rc[r].printerId) :
            IF l.ultimoCorteId # 0
            THEN /\ rc' = [rc EXCEPT ![r] =
                             [pc |-> "findCorte", printerId |-> rc[r].printerId,
                              impresora |-> rc[r].impresora, latest |-> l,
                              ingestaTrasLeer |-> FALSE]]
                 /\ out' = Silencio
                 /\ UNCHANGED <<sinIngesta, nextCorteId>>
            ELSE /\ rc' = [rc EXCEPT ![r] = RcConstruir(rc[r], l, NoDoc)]
                 /\ out' = DebugCorte(rc[r], l, NoDoc,
                                      calcularPeriodoCorte(NoDoc, l))
                 /\ sinIngesta' = SinIngestaTrasConstruir(rc[r].printerId, FALSE)
                 /\ nextCorteId' = nextCorteId + 1
  /\ UNCHANGED <<usuarios, carpetas, asignaciones, nextCarpetaId>>
  /\ UNCHANGED <<empresas, impresoras, latest, cortes, now, nextImpresoraId,
                 ing>>

\* CortesMensuales.findById(latest.ultimoCorteId)
RegistrarCorteFindCorte(r) ==
  /\ rc[r].pc = "findCorte"
  /\ LET ultimoCorte == CortePorId(rc[r].latest.ultimoCorteId) IN
       /\ rc' = [rc EXCEPT ![r] = RcConstruir(rc[r], rc[r].latest, ultimoCorte)]
       /\ out' = DebugCorte(rc[r], rc[r].latest, ultimoCorte,
                            calcularPeriodoCorte(ultimoCorte, rc[r].latest))
  /\ sinIngesta' = SinIngestaTrasConstruir(rc[r].printerId,
                                           rc[r].ingestaTrasLeer)
  /\ nextCorteId' = nextCorteId + 1
  /\ UNCHANGED <<usuarios, carpetas, asignaciones, nextCarpetaId>>
  /\ UNCHANGED <<empresas, impresoras, latest, cortes, now, nextImpresoraId,
                 ing>>

\* RegistrarCorteSave that sets the pointer instead of saving the document.
RegistrarCorteSave_punteroAntes(r) ==
  /\ rc[r].pc = "save"
  /\ IF LatestDe(rc[r].printerId) = {}
     THEN UNCHANGED latest
     ELSE \E l \in LatestDe(rc[r].printerId) :
            latest' = (latest \ {l}) \cup
              {[l EXCEPT !.ultimoCorteId = rc[r].nuevoCorte._id,
                         !.lastCutDate = rc[r].nuevoCorte.fechaCorte]}
  /\ rc' = [rc EXCEPT ![r].pc = "update"]
  /\ out' = Silencio
  /\ UNCHANGED <<usuarios, carpetas, asignaciones, nextCarpetaId>>
  /\ UNCHANGED <<empresas, impresoras, cortes, now, nextImpresoraId,
                 nextCorteId, ing, sinIngesta>>

\* nuevoCorte.save()
RegistrarCorteSave(r) ==
  /\ rc[r].pc = "save"
  /\ cortes' = cortes \cup {rc[r].nuevoCorte}
  /\ rc' = [rc EXCEPT ![r].pc = "update"]
  /\ out' = Silencio
  /\ UNCHANGED <<usuarios, carpetas, asignaciones, nextCarpetaId>>
  /\ UNCHANGED <<empresas, impresoras, latest, now, nextImpresoraId,
                 nextCorteId, ing, sinIngesta>>

\* SetPuntero that stamps the time of the update, not of the Cut.
SetPuntero_fechaActual(l, corteGuardado) ==
  [l EXCEPT !.ultimoCorteId = corteGuardado._id, !.lastCutDate = now]

\* SetPuntero that also clears the page counter.
SetPuntero_reiniciaContador(l, corteGuardado) ==
  [l EXCEPT !.ultimoCorteId = corteGuardado._id,
            !.lastCutDate = corteGuardado.fechaCorte,
            !.lastPageCount = JsNull]

\* A pointer update that writes the whole document the handler read: the
\* counter and supplies the Cut was built from go back into the store.
SetPuntero_reescribeLeido(l, corteGuardado) ==
  [l EXCEPT !.ultimoCorteId = corteGuardado._id,
            !.lastCutDate = corteGuardado.fechaCorte,
            !.lastPageCount = Num(corteGuardado.contadorFinGeneral),
            !.lastSupplies = corteGuardado.suppliesFin]

\* The $set of the pointer update.
SetPuntero(l, corteGuardado) ==
  [l EXCEPT !.ultimoCorteId = corteGuardado._id,
            !.lastCutDate = corteGuardado.fechaCorte]

\* ImpresoraLatest.findOneAndUpdate({ printerId }, { $set: { ultimoCorteId,
\* lastCutDate } }): no upsert, one matching document is updated; then the
\* answer.
RegistrarCorteUpdate(r) ==
  /\ rc[r].pc = "update"
  /\ IF LatestDe(rc[r].printerId) = {}
     THEN UNCHANGED latest
     ELSE \E l \in LatestDe(rc[r].printerId) :
            latest' = (latest \ {l}) \cup {SetPuntero(l, rc[r].nuevoCorte)}
  /\ rc' = [rc EXCEPT ![r] = RcIdle]
  /\ out' = RcResOk(rc[r])
  /\ UNCHANGED <<usuarios, carpetas, asignaciones, nextCarpetaId>>
  /\ UNCHANGED <<empresas, impresoras, cortes, now, nextImpresoraId,
                 nextCorteId, ing, sinIngesta>>

\* A catch block that undoes the save when the pointer update rejects.
RegistrarCorteFalla_deshace(r) ==
  /\ rc[r].pc \in {"findLatest", "findCorte", "save", "update"}
  /\ rc' = [rc EXCEPT ![r] = RcIdle]
  /\ out' = RcRes(500, rc[r].printerId)
  /\ cortes' = IF rc[r].pc = "update" THEN cortes \ {rc[r].nuevoCorte}
               ELSE cortes
  /\ UNCHANGED <<usuarios, carpetas, asignaciones, nextCarpetaId>>
  /\ UNCHANGED <<empresas, impresoras, latest, now, nextImpresoraId,
                 nextCorteId, ing, sinIngesta>>

\* A store operation of the register-cut rejects: the catch block answers 500.
RegistrarCorteFalla(r) ==
  /\ rc[r].pc \in {"findLatest", "findCorte", "save", "update"}
  /\ rc' = [rc EXCEPT ![r] = RcIdle]
  /\ out' = RcRes(500, rc[r].printerId)
  /\ UNCHANGED <<usuarios, carpetas, asignaciones, nextCarpetaId>>
  /\ UNCHANGED <<empresas, impresoras, latest, cortes, now, nextImpresoraId,
                 nextCorteId, ing, sinIngesta>>

\* -------------------------------------------- DELETE /api/empresas/:id
\* The first of the two handlers registered for the path answers; the
\* second is never reached.  deleteMany({ empresaId }) removes the documents
\* that carry that empresaId: the ingestion writes none on a LatestState.
DeleteEmpresa(id) ==
  /\ IF \E e \in empresas : e._id = id
     THEN /\ empresas' = {e \in empresas : e._id # id}
          /\ impresoras' = {d \in impresoras : d.empresaId # id}
          /\ latest' = {l \in latest :
                          ~("empresaId" \in DOMAIN l /\ l.empresaId = id)}
          /\ cortes' = {c \in cortes : c.empresaId # id}
          /\ out' = [ruta |-> "empresas", status |-> 200]
     ELSE /\ UNCHANGED <<empresas, impresoras, latest, cortes>>
          /\ out' = [ruta |-> "empresas", status |-> 404]
  /\ UNCHANGED <<usuarios, carpetas, asignaciones, nextCarpetaId>>
  /\ UNCHANGED <<now, nextImpresoraId, nextCorteId, ing, rc, sinIngesta>>

\* ------------------------------- GET /api/empresas/:empresaId/impresoras
\* A lastSeenAt that new Date() cannot parse: getTime() is NaN.
FechaInvalida == 0 - 1
\* !latest.lastSeenAt: the field is missing or null (0).
SinLastSeenAt(l) == "lastSeenAt" \notin DOMAIN l \/ l.lastSeenAt = 0
\* latest.online === false
OnlineEsFalse(l) == "online" \in DOMAIN l /\ l.online = FALSE

\* computeDerivedOnline that skips the test of the online flag.
computeDerivedOnline_sinFlag(l, t) ==
  IF l = NoDoc \/ SinLastSeenAt(l) THEN FALSE
  ELSE IF l.lastSeenAt = FechaInvalida THEN FALSE
  ELSE t - l.lastSeenAt <= ONLINE_STALE_MS

\* computeDerivedOnline that compares the age with < instead of <=.
computeDerivedOnline_estricto(l, t) ==
  IF l = NoDoc \/ SinLastSeenAt(l) THEN FALSE
  ELSE IF OnlineEsFalse(l) THEN FALSE
  ELSE IF l.lastSeenAt = FechaInvalida THEN FALSE
  ELSE t - l.lastSeenAt < ONLINE_STALE_MS

\* computeDerivedOnline that takes a null lastSeenAt for a date (the epoch).
computeDerivedOnline_sinNulo(l, t) ==
  IF l = NoDoc THEN FALSE
  ELSE IF OnlineEsFalse(l) THEN FALSE
  ELSE IF "lastSeenAt" \notin DOMAIN l \/ l.lastSeenAt = FechaInvalida
  THEN FALSE
  ELSE t - l.lastSeenAt <= ONLINE_STALE_MS

computeDerivedOnline(l, t) ==
  IF l = NoDoc \/ SinLastSeenAt(l) THEN FALSE
  ELSE IF OnlineEsFalse(l) THEN FALSE
  ELSE IF l.lastSeenAt = FechaInvalida THEN FALSE
  ELSE t - l.lastSeenAt <= ONLINE_STALE_MS

\* The function applied to a snapshot and an instant; what it returns.
DerivarOnline(l, t) ==
  /\ out' = [ruta |-> "computeDerivedOnline", latest |-> l, now |-> t,
             online |-> computeDerivedOnline(l, t)]
  /\ UNCHANGED <<usuarios, carpetas, asignaciones, nextCarpetaId>>
  /\ UNCHANGED <<empresas, impresoras, latest, cortes, now, nextImpresoraId,
                 nextCorteId, ing, rc, sinIngesta>>

\* mapLatest.get(String(i._id)) || null
MapLatest(pid) ==
  IF LatestDe(pid) = {} THEN NoDoc ELSE CHOOSE l \in LatestDe(pid) : TRUE

\* l ? { ...l, derivedOnline } : null
LatestWithDerived(l, derivedOnline) ==
  IF l = NoDoc THEN NoDoc ELSE [derivedOnline |-> derivedOnline] @@ l

\* ListarImpresoras that stores the derived flag on the LatestState.
ListarImpresoras_guardaOnline(empresaId) ==
  /\ out' = [ruta |-> "impresoras", status |-> 200,
             data |-> {[impresora |-> i,
                        online |-> computeDerivedOnline(MapLatest(i._id), now),
                        latest |-> LatestWithDerived(MapLatest(i._id),
                                     computeDerivedOnline(MapLatest(i._id), now))] :
                       i \in {d \in impresoras : d.empresaId = empresaId}}]
  /\ latest' = {[l EXCEPT !.online = computeDerivedOnline(l, now)] :
                l \in latest}
  /\ UNCHANGED <<usuarios, carpetas, asignaciones, nextCarpetaId>>
  /\ UNCHANGED <<empresas, impresoras, cortes, now, nextImpresoraId,
                 nextCorteId, ing, rc, sinIngesta>>

ListarImpresoras(empresaId) ==
  /\ out' = [ruta |-> "impresoras", status |-> 200,
             data |-> {[impresora |-> i,
                        online |-> computeDerivedOnline(MapLatest(i._id), now),
                        latest |-> LatestWithDerived(MapLatest(i._id),
                                     computeDerivedOnline(MapLatest(i._id), now))] :
                       i \in {d \in impresoras : d.empresaId = empresaId}}]
  /\ UNCHANGED <<usuarios, carpetas, asignaciones, nextCarpetaId>>
  /\ UNCHANGED <<empresas, impresoras, latest, cortes, now, nextImpresoraId,
                 nextCorteId, ing, rc, sinIngesta>>

\* GenerarPdf that writes the rendered document back over the Cut.
GenerarPdf_guarda(printerId) ==
  /\ LET l == IF LatestDe(printerId) = {} THEN NoDoc
              ELSE CHOOSE x \in LatestDe(printerId) : TRUE
         corte == IF l = NoDoc THEN NoDoc ELSE CortePorId(l.ultimoCorteId)
     IN IF l = NoDoc \/ corte = NoDoc
        THEN /\ out' = [ruta |-> "generar-pdf", status |-> 400]
             /\ UNCHANGED cortes
        ELSE /\ out' = [ruta |-> "generar-pdf", status |-> 200]
             /\ cortes' = (cortes \ {corte}) \cup
                  {[corte EXCEPT !.periodo =
                      [texto |-> "Desde instalación", inicio |-> 0, fin |-> 0]]}
  /\ UNCHANGED <<usuarios, carpetas, asignaciones, nextCarpetaId>>
  /\ UNCHANGED <<empresas, impresoras, latest, now, nextImpresoraId,
                 nextCorteId, ing, rc, sinIngesta>>

\* --------------------------------- GET /api/impresoras/:id/generar-pdf
\* corte.ultimoCorteId, as the handler reads it off a Cut: the field when
\* the document has it, undefined (0) otherwise.
ReferenciaAnterior(c) ==
  IF "ultimoCorteId" \in DOMAIN c THEN c.ultimoCorteId ELSE 0

\* .populate('ultimoCorteId'): the referenced Cut, or null.  The handler
\* looks the previous Cut up through corte.ultimoCorteId.  A null impresora
\* makes the renderer throw: the catch answers 500.
GenerarPdf(printerId) ==
  /\ LET l == MapLatest(printerId)
         corte == IF l = NoDoc THEN NoDoc ELSE CortePorId(l.ultimoCorteId)
         impresora == ImpresoraPorId(printerId)
         ultimoCorteAnterior ==
           IF corte # NoDoc /\ ReferenciaAnterior(corte) # 0
           THEN CortePorId(ReferenciaAnterior(corte)) ELSE NoDoc
     IN out' =
          IF l = NoDoc \/ corte = NoDoc
          THEN [ruta |-> "generar-pdf", status |-> 400]
          ELSE IF impresora = NoDoc
          THEN [ruta |-> "generar-pdf", status |-> 500]
          ELSE [ruta |-> "generar-pdf", status |-> 200,
                datosPDF |-> [corte EXCEPT !.periodo =
                                calcularPeriodoCorte(ultimoCorteAnterior,
                                                     l).periodo],
                impresora |-> impresora]
  /\ UNCHANGED <<usuarios, carpetas, asignaciones, nextCarpetaId>>
  /\ UNCHANGED <<empresas, impresoras, latest, cortes, now, nextImpresoraId,
                 nextCorteId, ing, rc, sinIngesta>>

\* ------------------------------------------------- licences (server.js)
\* Everything but the collections of users, folders and assignments.
RestoSinCambios ==
  UNCHANGED <<empresas, impresoras, latest, cortes, now, nextImpresoraId,
              nextCorteId, ing, rc, carpetas, asignaciones, nextCarpetaId,
              sinIngesta>>

\* `usuario.campo > ahora` for a Date path: a missing field is undefined and
\* compares false; null (0) converts to 0.
FechaMayor(u, campo, ahora) == campo \in DOMAIN u /\ u[campo] > ahora
\* `usuario.campo <= ahora`
FechaMenorIgual(u, campo, ahora) == campo \in DOMAIN u /\ u[campo] <= ahora
\* usuario.fechaExpiracionTrial.toLocaleDateString() throws on null.
FechaTrialNula(u) ==
  "fechaExpiracionTrial" \in DOMAIN u /\ u.fechaExpiracionTrial = 0

\* bcrypt.hash(password, 10) and bcrypt.compare(password, hash).
Hash(password) == <<"bcrypt", password>>
Compare(password, hash) == hash = Hash(password)

\* Step 3 of POST /login that has no trial branch.
LicenciaLogin_sinTrial(u, ahora) ==
  IF u.activo /\ FechaMayor(u, "fechaExpiracionLicencia", ahora)
  THEN [status |-> 200, codigo |-> "OK"]
  ELSE IF u.licenciaTrial /\ FechaMenorIgual(u, "fechaExpiracionTrial", ahora)
  THEN IF FechaTrialNula(u)
       THEN [status |-> 500, codigo |-> "ERROR_SERVIDOR"]
       ELSE [status |-> 403, codigo |-> "TRIAL_EXPIRADO"]
  ELSE IF u.plan # "trial" /\ ~u.activo
  THEN [status |-> 403, codigo |-> "PENDIENTE_PAGO"]
  ELSE IF u.activo /\ FechaMenorIgual(u, "fechaExpiracionLicencia", ahora)
  THEN [status |-> 403, codigo |-> "LICENCIA_EXPIRADA"]
  ELSE [status |-> 403, codigo |-> "LICENCIA_INVALIDA"]

\* Steps 3 and 4 of POST /login: cases A to F and the answer they lead to.
LicenciaLogin(u, ahora) ==
  IF u.activo /\ FechaMayor(u, "fechaExpiracionLicencia", ahora)
  THEN [status |-> 200, codigo |-> "OK"]
  ELSE IF u.licenciaTrial /\ FechaMayor(u, "fechaExpiracionTrial", ahora)
  THEN [status |-> 200, codigo |-> "OK"]
  ELSE IF u.licenciaTrial /\ FechaMenorIgual(u, "fechaExpiracionTrial", ahora)
  THEN IF FechaTrialNula(u)
       THEN [status |-> 500, codigo |-> "ERROR_SERVIDOR"]
       ELSE [status |-> 403, codigo |-> "TRIAL_EXPIRADO"]
  ELSE IF u.plan # "trial" /\ ~u.activo
  THEN [status |-> 403, codigo |-> "PENDIENTE_PAGO"]
  ELSE IF u.activo /\ FechaMenorIgual(u, "fechaExpiracionLicencia", ahora)
  THEN [status |-> 403, codigo |-> "LICENCIA_EXPIRADA"]
  ELSE [status |-> 403, codigo |-> "LICENCIA_INVALIDA"]

LoginRes(r, email) ==
  [ruta |-> "login", status |-> r.status, codigo |-> r.codigo, email |-> email]

\* POST /login
Login(email, password, ciudad) ==
  /\ LET hits == {u \in usuarios : u.email = email /\ u.ciudad = ciudad} IN
       IF hits = {}
       THEN out' = LoginRes([status |-> 401,
                             codigo |-> "USUARIO_NO_ENCONTRADO"], email)
       ELSE \E u \in hits :
              out' = IF ~Compare(password, u.password)
                     THEN LoginRes([status |-> 401,
                                    codigo |-> "CONTRASENA_INCORRECTA"], email)
                     ELSE LoginRes(LicenciaLogin(u, now), email)
  /\ UNCHANGED usuarios
  /\ RestoSinCambios

\* The licence logic of GET /api/verificar-licencia/:empresaId.
LicenciaGet(u, ahora) ==
  IF u.activo /\ FechaMayor(u, "fechaExpiracionLicencia", ahora)
  THEN [puedeAcceder |-> TRUE, motivo |-> "Licencia activa (pago)"]
  ELSE IF u.licenciaTrial /\ FechaMayor(u, "fechaExpiracionTrial", ahora)
  THEN [puedeAcceder |-> TRUE, motivo |-> "Trial vigente"]
  ELSE IF u.licenciaTrial /\ FechaMenorIgual(u, "fechaExpiracionTrial", ahora)
  THEN [puedeAcceder |-> FALSE, motivo |-> "Trial expirado"]
  ELSE [puedeAcceder |-> FALSE,
        motivo |-> "Licencia inactiva (pendiente de pago)"]

\* GET /api/verificar-licencia/:empresaId
VerificarLicenciaGet(empresaId) ==
  /\ LET hits == {u \in usuarios : u.empresaId = empresaId} IN
       IF hits = {}
       THEN out' = [ruta |-> "verificar-licencia", status |-> 404,
                    empresaId |-> empresaId]
       ELSE \E u \in hits :
              out' = [ruta |-> "verificar-licencia", status |-> 200,
                      empresaId |-> empresaId,
                      puedeAcceder |-> LicenciaGet(u, now).puedeAcceder,
                      motivo |-> LicenciaGet(u, now).motivo]
  /\ UNCHANGED usuarios
  /\ RestoSinCambios

\* The licence logic of the verificarLicencia middleware: next() or a 403.
LicenciaMiddleware(u, ahora) ==
  IF u.activo /\ FechaMayor(u, "fechaExpiracionLicencia", ahora)
  THEN [status |-> 200, codigo |-> "next"]
  ELSE IF u.licenciaTrial /\ FechaMayor(u, "fechaExpiracionTrial", ahora)
  THEN [status |-> 200, codigo |-> "next"]
  ELSE IF u.licenciaTrial /\ FechaMenorIgual(u, "fechaExpiracionTrial", ahora)
  THEN [status |-> 403, codigo |-> "TRIAL_EXPIRADO"]
  ELSE IF u.plan # "trial" /\ ~u.activo
  THEN [status |-> 403, codigo |-> "PENDIENTE_PAGO"]
  ELSE [status |-> 403, codigo |-> "LICENCIA_INVALIDA"]

\* verificarLicencia(req, res, next)
verificarLicencia(empresaId, ciudad) ==
  /\ LET hits == {u \in usuarios : u.empresaId = empresaId
                                   /\ u.ciudad = ciudad} IN
       IF ~Truthy(empresaId) \/ ~Truthy(ciudad)
       THEN out' = [ruta |-> "verificarLicencia", status |-> 401,
                    codigo |-> "SIN_CREDENCIALES", empresaId |-> empresaId]
       ELSE IF hits = {}
       THEN out' = [ruta |-> "verificarLicencia", status |-> 401,
                    codigo |-> "USUARIO_NO_ENCONTRADO",
                    empresaId |-> empresaId]
       ELSE \E u \in hits :
              out' = [ruta |-> "verificarLicencia",
                      status |-> LicenciaMiddleware(u, now).status,
                      codigo |-> LicenciaMiddleware(u, now).codigo,
                      empresaId |-> empresaId]
  /\ UNCHANGED usuarios
  /\ RestoSinCambios

\* limiteEmpresas of a plan.
LimiteEmpresas(plan) ==
  IF plan = "premium" THEN 30 ELSE IF plan = "starter" THEN 10 ELSE 1

\* POST /api/registro; setDate(getDate() + diasTrial) moves the date by
\* whole days.
Registro(email, password, ciudad, empresaId, plan, diasTrial) ==
  /\ IF ~Truthy(email) \/ ~Truthy(password) \/ ~Truthy(ciudad)
        \/ ~Truthy(empresaId)
     THEN UNCHANGED usuarios /\ out' = [ruta |-> "registro", status |-> 400]
     ELSE IF plan \notin {"trial", "starter", "premium"}
     THEN UNCHANGED usuarios /\ out' = [ruta |-> "registro", status |-> 400]
     ELSE IF \E u \in usuarios : u.email = email
     THEN UNCHANGED usuarios /\ out' = [ruta |-> "registro", status |-> 400]
     ELSE IF Len(password) < 6
     THEN UNCHANGED usuarios /\ out' = [ruta |-> "registro", status |-> 400]
     ELSE /\ usuarios' = usuarios \cup
               {[email |-> email, password |-> Hash(password),
                 ciudad |-> ciudad, empresaId |-> empresaId, plan |-> plan,
                 activo |-> (plan = "trial"), licenciaTrial |-> TRUE,
                 fechaRegistro |-> now,
                 fechaExpiracionTrial |-> now + diasTrial * TicksPorDia,
                 fechaExpiracionLicencia |-> 0,
                 limiteEmpresas |-> LimiteEmpresas(plan)]}
          /\ out' = [ruta |-> "registro", status |-> 200, email |-> email,
                     plan |-> plan, activo |-> (plan = "trial")]
  /\ RestoSinCambios

\* An activation that also opens a paid licence: it ends the trial and sets
\* an expiry.
Activar_abreLicencia(email) ==
  /\ IF \E u \in usuarios : u.email = email
     THEN /\ usuarios' =
               {IF u.email = email
                THEN [u EXCEPT !.activo = TRUE, !.licenciaTrial = FALSE,
                               !.fechaExpiracionLicencia = now + TicksPorDia]
                ELSE u : u \in usuarios}
          /\ out' = [ruta |-> "activar", status |-> 200, email |-> email]
     ELSE /\ UNCHANGED usuarios
          /\ out' = [ruta |-> "activar", status |-> 404, email |-> email]
  /\ RestoSinCambios

\* PATCH /api/usuarios/:email/activar: findOneAndUpdate({ email }, { activo:
\* true, fechaActivacion }); the schema has no fechaActivacion path, and the
\* update of a path that is not in the schema is dropped.
Activar(email) ==
  /\ IF \E u \in usuarios : u.email = email
     THEN /\ usuarios' = {IF u.email = email THEN [u EXCEPT !.activo = TRUE]
                          ELSE u : u \in usuarios}
          /\ out' = [ruta |-> "activar", status |-> 200, email |-> email]
     ELSE /\ UNCHANGED usuarios
          /\ out' = [ruta |-> "activar", status |-> 404, email |-> email]
  /\ RestoSinCambios

\* ------------------------------------------------------ /api/carpetas
\* What the folder handlers do not touch.
SinCambiosFueraDeCarpetas ==
  UNCHANGED <<empresas, impresoras, latest, cortes, now, nextImpresoraId,
              nextCorteId, ing, rc, usuarios, sinIngesta>>

CarpetaRes(metodo, status) ==
  [ruta |-> "carpetas", metodo |-> metodo, status |-> status]

\* POST /api/carpetas; parentId 0 is null.
CrearCarpeta(nombre, parentId, empresaId, ciudad) ==
  /\ IF ~Truthy(nombre) \/ ~Truthy(empresaId) \/ ~Truthy(ciudad)
     THEN /\ UNCHANGED <<carpetas, nextCarpetaId>>
          /\ out' = CarpetaRes("POST", 400)
     ELSE IF parentId # 0
             /\ ~\E c \in carpetas : /\ c._id = parentId
                                     /\ c.empresaId = empresaId
                                     /\ c.ciudad = ciudad
     THEN /\ UNCHANGED <<carpetas, nextCarpetaId>>
          /\ out' = CarpetaRes("POST", 404)
     ELSE /\ nextCarpetaId <= MaxCarpetas
          /\ carpetas' = carpetas \cup
               {[_id |-> nextCarpetaId, nombre |-> nombre,
                 parentId |-> parentId, empresaId |-> empresaId,
                 ciudad |-> ciudad]}
          /\ nextCarpetaId' = nextCarpetaId + 1
          /\ out' = CarpetaRes("POST", 201)
  /\ UNCHANGED asignaciones
  /\ SinCambiosFueraDeCarpetas

\* POST /api/asignaciones; carpetaId 0 is null.
Asignar(empresaId, carpetaId, empresaPadreId, ciudad) ==
  /\ LET mias == {a \in asignaciones : /\ a.empresaId = empresaId
                                       /\ a.empresaPadreId = empresaPadreId
                                       /\ a.ciudad = ciudad}
     IN IF ~Truthy(empresaId) \/ ~Truthy(empresaPadreId) \/ ~Truthy(ciudad)
        THEN /\ UNCHANGED asignaciones
             /\ out' = [ruta |-> "asignaciones", status |-> 400]
        ELSE IF carpetaId = 0
        THEN /\ IF mias = {} THEN UNCHANGED asignaciones
                ELSE \E a \in mias : asignaciones' = asignaciones \ {a}
             /\ out' = [ruta |-> "asignaciones", status |-> 200]
        ELSE IF ~\E c \in carpetas : /\ c._id = carpetaId
                                     /\ c.empresaId = empresaPadreId
                                     /\ c.ciudad = ciudad
        THEN /\ UNCHANGED asignaciones
             /\ out' = [ruta |-> "asignaciones", status |-> 404]
        ELSE /\ IF mias = {}
                THEN asignaciones' = asignaciones \cup
                       {[empresaId |-> empresaId,
                         empresaPadreId |-> empresaPadreId,
                         ciudad |-> ciudad, carpetaId |-> carpetaId]}
                ELSE \E a \in mias :
                       asignaciones' = (asignaciones \ {a}) \cup
                                         {[a EXCEPT !.carpetaId = carpetaId]}
             /\ out' = [ruta |-> "asignaciones", status |-> 200]
  /\ UNCHANGED <<carpetas, nextCarpetaId>>
  /\ SinCambiosFueraDeCarpetas

\* The two collections as the removal goes on, and the calls it has made.
RECURSIVE eliminarSubcarpetasRecursivamente(_, _, _, _)
RECURSIVE EliminarCada(_, _, _, _)

\* The body of the for loop, for each subfolder found: its assignments, its
\* own subfolders, then the subfolder.
EliminarCada(subcarpetas, empresaId, ciudad, st) ==
  IF subcarpetas = {} THEN st
  ELSE LET subcarpeta == CHOOSE c \in subcarpetas : TRUE
           st1 == [st EXCEPT !.asignaciones =
                     {a \in @ : a.carpetaId # subcarpeta._id}]
           st2 == eliminarSubcarpetasRecursivamente(subcarpeta._id, empresaId,
                                                    ciudad, st1)
           st3 == [st2 EXCEPT !.carpetas = {c \in @ : c._id # subcarpeta._id}]
       IN EliminarCada(subcarpetas \ {subcarpeta}, empresaId, ciudad, st3)

\* A removal that stops at the subfolders it finds and does not descend.
eliminarSubcarpetasRecursivamente_unNivel(parentId, empresaId, ciudad, st) ==
  LET subcarpetas == {c \in st.carpetas : /\ c.parentId = parentId
                                          /\ c.empresaId = empresaId
                                          /\ c.ciudad = ciudad}
      ids == {c._id : c \in subcarpetas}
  IN [carpetas |-> st.carpetas \ subcarpetas,
      asignaciones |-> {a \in st.asignaciones : a.carpetaId \notin ids},
      llamadas |-> st.llamadas + 1]

\* eliminarSubcarpetasRecursivamente(parentId, empresaId, ciudad)
eliminarSubcarpetasRecursivamente(parentId, empresaId, ciudad, st) ==
  LET subcarpetas == {c \in st.carpetas : /\ c.parentId = parentId
                                          /\ c.empresaId = empresaId
                                          /\ c.ciudad = ciudad}
  IN EliminarCada(subcarpetas, empresaId, ciudad,
                  [st EXCEPT !.llamadas = @ + 1])

\* DELETE /api/carpetas/:id.  The answer carries, as history, the calls of
\* the recursive removal and the documents the request removed.
EliminarCarpeta(id, empresaId, ciudad) ==
  /\ LET hits == {c \in carpetas : /\ c._id = id /\ c.empresaId = empresaId
                                   /\ c.ciudad = ciudad}
     IN IF hits = {}
        THEN /\ UNCHANGED <<carpetas, asignaciones>>
             /\ out' = CarpetaRes("DELETE", 404)
        ELSE LET st == eliminarSubcarpetasRecursivamente(id, empresaId, ciudad,
                         [carpetas |-> carpetas \ hits,
                          asignaciones |-> {a \in asignaciones :
                                              a.carpetaId # id},
                          llamadas |-> 0])
             IN /\ carpetas' = st.carpetas
                /\ asignaciones' = st.asignaciones
                /\ out' = [ruta |-> "carpetas", metodo |-> "DELETE",
                           status |-> 200, id |-> id,
                           llamadas |-> st.llamadas,
                           eliminadas |-> carpetas \ st.carpetas,
                           asignacionesEliminadas |->
                             asignaciones \ st.asignaciones]
  /\ UNCHANGED nextCarpetaId
  /\ SinCambiosFueraDeCarpetas

\* ------------------------------------------------------- specifications
\* No request is in flight.
Quieto == ing.pc = "idle" /\ \A r \in RcSlots : rc[r].pc = "idle"

\* Ingestions and register-cuts, interleaved at every await.
NextCortes ==
  \/ \E token \in Tokens, b \in BodiesCarrera(now) : IngestaAutenticar(token, b)
  \/ IngestaUpsertImpresora
  \/ IngestaUpsertLatest
  \/ IngestaFalla
  \/ \E r \in RcSlots, id \in ImpresoraIds : RegistrarCorteFindImpresora(r, id)
  \/ \E r \in RcSlots : RegistrarCorteFindLatest(r)
  \/ \E r \in RcSlots : RegistrarCorteFindCorte(r)
  \/ \E r \in RcSlots : RegistrarCorteSave(r)
  \/ \E r \in RcSlots : RegistrarCorteUpdate(r)
  \/ \E r \in RcSlots : RegistrarCorteFalla(r)

SpecCortes == Init /\ [][NextCortes]_vars

\* A run that constructs at most MaxCadena documents.
EnCadena == nextCorteId + Cardinality(RcPorConstruir) <= MaxCadena

\* Every handler, interleaved at every await.
Next ==
  \/ \E token \in Tokens, b \in BodiesCarrera(now) : IngestaAutenticar(token, b)
  \/ IngestaUpsertImpresora
  \/ IngestaUpsertLatest
  \/ IngestaFalla
  \/ EnCadena /\ \E r \in RcSlots, id \in ImpresoraIds :
                   RegistrarCorteFindImpresora(r, id)
  \/ \E r \in RcSlots : RegistrarCorteFindLatest(r)
  \/ \E r \in RcSlots : RegistrarCorteFindCorte(r)
  \/ \E r \in RcSlots : RegistrarCorteSave(r)
  \/ \E r \in RcSlots : RegistrarCorteUpdate(r)
  \/ \E r \in RcSlots : RegistrarCorteFalla(r)
  \/ \E id \in EmpresaIds : DeleteEmpresa(id)
  \/ \E id \in EmpresaIds : ListarImpresoras(id)
  \/ \E id \in ImpresoraIds : GenerarPdf(id)

Spec == Init /\ [][Next]_vars

\* Requests that do not overlap: one arrives when none is in flight.  Every
\* counter and supply list is reported.
NextSecuencial ==
  \/ Quieto /\ \E token \in Tokens, b \in BodiesDatos(now) :
                 IngestaAutenticar(token, b)
  \/ IngestaUpsertImpresora
  \/ IngestaUpsertLatest
  \/ IngestaFalla
  \/ Quieto /\ EnCadena /\ \E r \in RcSlots, id \in ImpresoraIds :
                             RegistrarCorteFindImpresora(r, id)
  \/ \E r \in RcSlots : RegistrarCorteFindLatest(r)
  \/ \E r \in RcSlots : RegistrarCorteFindCorte(r)
  \/ \E r \in RcSlots : RegistrarCorteSave(r)
  \/ \E r \in RcSlots : RegistrarCorteUpdate(r)
  \/ \E r \in RcSlots : RegistrarCorteFalla(r)

SpecSecuencial == Init /\ [][NextSecuencial]_vars

\* One register-cut at a time, ingestions interleaved with it, on a running
\* clock.
NextReloj ==
  \/ Tick
  \/ \E token \in Tokens, b \in BodiesCarrera(now) : IngestaAutenticar(token, b)
  \/ IngestaUpsertImpresora
  \/ IngestaUpsertLatest
  \/ IngestaFalla
  \/ (\A r \in RcSlots : rc[r].pc = "idle") /\ EnCadena /\
       \E r \in RcSlots, id \in ImpresoraIds : RegistrarCorteFindImpresora(r, id)
  \/ \E r \in RcSlots : RegistrarCorteFindLatest(r)
  \/ \E r \in RcSlots : RegistrarCorteFindCorte(r)
  \/ \E r \in RcSlots : RegistrarCorteSave(r)
  \/ \E r \in RcSlots : RegistrarCorteUpdate(r)
  \/ \E r \in RcSlots : RegistrarCorteFalla(r)

SpecReloj == Init /\ [][NextReloj]_vars

\* Ingestions one at a time and listings, on a clock that runs until the
\* last report has gone stale.
NextOnline ==
  \/ TickHasta(MaxNow + ONLINE_STALE_MS)
  \/ Quieto /\ \E token \in Tokens, b \in BodiesOnline(now) :
                 IngestaAutenticar(token, b)
  \/ IngestaUpsertImpresora
  \/ IngestaUpsertLatest
  \/ IngestaFalla
  \/ \E id \in EmpresaIds : ListarImpresoras(id)

SpecOnline == Init /\ [][NextOnline]_vars

\* Ingestions one at a time, of printers that differ in host and serial.
NextIdentidad ==
  \/ Quieto /\ \E token \in Tokens, b \in BodiesIdentidad(now) :
                 IngestaAutenticar(token, b)
  \/ IngestaUpsertImpresora
  \/ IngestaUpsertLatest
  \/ IngestaFalla

SpecIdentidad == Init /\ [][NextIdentidad]_vars

\* Ingestions one at a time, of reports that differ in what they carry.
NextSenales ==
  \/ Quieto /\ \E token \in Tokens, b \in BodiesSenales(now) :
                 IngestaAutenticar(token, b)
  \/ IngestaUpsertImpresora
  \/ IngestaUpsertLatest
  \/ IngestaFalla

SpecSenales == Init /\ [][NextSenales]_vars

\* One register-cut at a time, interleaved with ingestions of reports that
\* pair each counter with its own supplies.
NextPareja ==
  \/ \E token \in Tokens, b \in BodiesPareja(now) : IngestaAutenticar(token, b)
  \/ IngestaUpsertImpresora
  \/ IngestaUpsertLatest
  \/ IngestaFalla
  \/ (\A r \in RcSlots : rc[r].pc = "idle") /\ EnCadena /\
       \E r \in RcSlots, id \in ImpresoraIds : RegistrarCorteFindImpresora(r, id)
  \/ \E r \in RcSlots : RegistrarCorteFindLatest(r)
  \/ \E r \in RcSlots : RegistrarCorteFindCorte(r)
  \/ \E r \in RcSlots : RegistrarCorteSave(r)
  \/ \E r \in RcSlots : RegistrarCorteUpdate(r)
  \/ \E r \in RcSlots : RegistrarCorteFalla(r)

SpecPareja == Init /\ [][NextPareja]_vars

\* Requests one at a time, any store operation of which may reject, in a run
\* that constructs up to MaxCortes documents.
NextFallas ==
  \/ Quieto /\ \E token \in Tokens, b \in BodiesCarrera(now) :
                 IngestaAutenticar(token, b)
  \/ IngestaUpsertImpresora
  \/ IngestaUpsertLatest
  \/ IngestaFalla
  \/ Quieto /\ \E r \in RcSlots, id \in ImpresoraIds :
                 RegistrarCorteFindImpresora(r, id)
  \/ \E r \in RcSlots : RegistrarCorteFindLatest(r)
  \/ \E r \in RcSlots : RegistrarCorteFindCorte(r)
  \/ \E r \in RcSlots : RegistrarCorteSave(r)
  \/ \E r \in RcSlots : RegistrarCorteUpdate(r)
  \/ \E r \in RcSlots : RegistrarCorteFalla(r)

SpecFallas == Init /\ [][NextFallas]_vars

\* Two tenants: ingestions and register-cuts one at a time, and the deletion
\* of a tenant at any moment.
NextTenants ==
  \/ Quieto /\ \E token \in TokensDos, b \in BodiesTenants(now) :
                 IngestaAutenticar(token, b)
  \/ IngestaUpsertImpresora
  \/ IngestaUpsertLatest
  \/ IngestaFalla
  \/ Quieto /\ EnCadena /\ \E r \in RcSlots, id \in ImpresoraIds :
                             RegistrarCorteFindImpresora(r, id)
  \/ \E r \in RcSlots : RegistrarCorteFindLatest(r)
  \/ \E r \in RcSlots : RegistrarCorteFindCorte(r)
  \/ \E r \in RcSlots : RegistrarCorteSave(r)
  \/ \E r \in RcSlots : RegistrarCorteUpdate(r)
  \/ \E r \in RcSlots : RegistrarCorteFalla(r)
  \/ \E id \in EmpresaIdsDos : DeleteEmpresa(id)

SpecTenants == InitDos /\ [][NextTenants]_vars

\* Snapshots handed to computeDerivedOnline: none, or a LatestState with or
\* without lastSeenAt (null, unparsable, an instant) and with or without the
\* online flag; and the instants it is asked at.
InstantesDerivar == 1..(MaxNow + ONLINE_STALE_MS + 2)
LatestInputs ==
  {NoDoc}
  \cup {[printerId |-> 1, lastSeenAt |-> ls, online |-> o] :
          ls \in {0, FechaInvalida} \cup InstantesDerivar, o \in BOOLEAN}
  \cup {[printerId |-> 1, lastSeenAt |-> ls] :
          ls \in {0, FechaInvalida} \cup InstantesDerivar}
  \cup {[printerId |-> 1, online |-> o] : o \in BOOLEAN}

NextDerivar == \E l \in LatestInputs, t \in InstantesDerivar : DerivarOnline(l, t)

SpecDerivar == Init /\ [][NextDerivar]_vars

\* User records as the store may hold them: every plan and flag, each date
\* missing, null (0) or an instant before, at or after the clock.
FechasUsuario == 0..(MaxNow + 1)
UsuarioBase(plan, activo, licenciaTrial) ==
  [email |-> "a@x", password |-> Hash("secreta"), ciudad |-> "c1",
   empresaId |-> "e1", plan |-> plan, activo |-> activo,
   licenciaTrial |-> licenciaTrial, fechaRegistro |-> 1,
   limiteEmpresas |-> LimiteEmpresas(plan)]
UsuarioInputs ==
  LET trial == {<< >>} \cup {[fechaExpiracionTrial |-> f] : f \in FechasUsuario}
      licencia == {<< >>}
                  \cup {[fechaExpiracionLicencia |-> f] : f \in FechasUsuario}
  IN {UsuarioBase(p, a, lt) @@ t @@ l :
        p \in {"trial", "starter", "premium"}, a \in BOOLEAN, lt \in BOOLEAN,
        t \in trial, l \in licencia}

InitLicencia ==
  /\ empresas = {[_id |-> e, apiKey |-> ApiKeyDe(e)] : e \in EmpresaIds}
  /\ impresoras = {}
  /\ latest = {}
  /\ cortes = {}
  /\ now = 1
  /\ nextImpresoraId = 1
  /\ nextCorteId = 1
  /\ ing = IngIdle
  /\ rc = [r \in RcSlots |-> RcIdle]
  /\ \E u \in UsuarioInputs : usuarios = {u}
  /\ carpetas = {}
  /\ asignaciones = {}
  /\ nextCarpetaId = 1
  /\ sinIngesta = [p \in ImpresoraIds |-> 0]
  /\ out = Silencio

\* What the clients of the licence checks send.
Emails == {"a@x", "b@x"}
Passwords == {"secreta", "corta"}
EmpresasUsuario == {"e1", "e2"}

\* The three licence checks applied to a user record, on a running clock.
NextLicencia ==
  \/ Tick
  \/ \E e \in Emails, p \in Passwords : Login(e, p, "c1")
  \/ \E e \in EmpresasUsuario : VerificarLicenciaGet(e)
  \/ \E e \in EmpresasUsuario \cup {Nulo} : verificarLicencia(e, "c1")

SpecLicencia == InitLicencia /\ [][NextLicencia]_vars

\* Registrations, manual activations and logins while the trials run out.
NextUsuarios ==
  \/ TickHasta(MaxNow + TicksPorDia)
  \/ \E e \in {"a@x", Nulo}, p \in Passwords,
        plan \in {"trial", "starter", "otro"}, d \in {0, 1} :
       Registro(e, p, "c1", "e1", plan, d)
  \/ \E e \in Emails : Activar(e)
  \/ \E e \in Emails, p \in Passwords : Login(e, p, "c1")

SpecUsuarios == Init /\ [][NextUsuarios]_vars

\* Folder requests one after another: folders of two tenants, at the root or
\* under any id, assignments of a company to them, and deletions.
TenantsCarpetas == {"e1", "e2"}
CarpetaIds == 0..MaxCarpetas
NextCarpetas ==
  \/ \E n \in {"n", Nulo}, p \in CarpetaIds, e \in TenantsCarpetas :
       CrearCarpeta(n, p, e, "c1")
  \/ \E c \in CarpetaIds, e \in TenantsCarpetas : Asignar("x1", c, e, "c1")
  \/ \E id \in CarpetaIds \ {0}, e \in TenantsCarpetas :
       EliminarCarpeta(id, e, "c1")

SpecCarpetas == Init /\ [][NextCarpetas]_vars

\* ------------------------------------------------------------ properties
\* The register-cut that has just logged DEBUG CORTE, holding the document
\* it is about to save.
RecienConstruido ==
  {r \in RcSlots : rc[r].pc = "save" /\ rc[r].nuevoCorte._id = nextCorteId - 1
                   /\ rc[r].printerId = out.printerId}

\* The page counter of a LatestState as the cut reads it: 0 when null.
ContadorLeido(x) == IF x.t = "number" THEN x.v ELSE 0

\* C1: a register-cut that finds the previous Cut builds a Cut whose
\* contadorInicioGeneral is that Cut's contadorFinGeneral, whose
\* contadorFinGeneral is the lastPageCount of the LatestState (0 when null),
\* whose totalPaginasGeneral is max(0, fin - inicio), which is not a first
\* cut, and the request goes on to save it; this for every pair of counters,
\* a decreasing one included.
C1_CorteConAnterior ==
  (out.ruta = "DEBUG CORTE" /\ out.tieneUltimoCorte) =>
    /\ RecienConstruido # {}
    /\ \A r \in RecienConstruido :
         LET n == rc[r].nuevoCorte
             anterior == CortePorId(out.ultimoCorteId)
             fin == ContadorLeido(out.contadoresActuales.lastPageCount)
         IN /\ anterior # NoDoc
            /\ n.contadorInicioGeneral = anterior.contadorFinGeneral
            /\ n.contadorFinGeneral = fin
            /\ n.totalPaginasGeneral =
                 (IF fin - anterior.contadorFinGeneral > 0
                  THEN fin - anterior.contadorFinGeneral ELSE 0)
            /\ out.calculosResultado.esPrimerCorte = FALSE
            /\ n.periodo.texto # "Desde instalación"
            /\ ENABLED RegistrarCorteSave(r)

\* A second cut built after the counter went down: its total is 0.
C1_Testigo ==
  /\ out.ruta = "DEBUG CORTE" /\ out.tieneUltimoCorte
  /\ \E r \in RecienConstruido :
       /\ rc[r].nuevoCorte.contadorFinGeneral
            < rc[r].nuevoCorte.contadorInicioGeneral
       /\ rc[r].nuevoCorte.totalPaginasGeneral = 0

\* C2: a register-cut of a printer whose LatestState has no ultimoCorteId
\* builds a Cut with contadorInicioGeneral 0, contadorFinGeneral and
\* totalPaginasGeneral both the lastPageCount of the LatestState (0 when
\* null), the period text 'Desde instalación', and reports esPrimerCorte.
C2_PrimerCorte ==
  (out.ruta = "DEBUG CORTE" /\ out.ultimoCorteId = 0) =>
    /\ RecienConstruido # {}
    /\ \A r \in RecienConstruido :
         LET n == rc[r].nuevoCorte
             fin == ContadorLeido(out.contadoresActuales.lastPageCount)
         IN /\ n.contadorInicioGeneral = 0
            /\ n.contadorFinGeneral = fin
            /\ n.totalPaginasGeneral = fin
            /\ n.periodo.texto = "Desde instalación"
            /\ out.calculosResultado.esPrimerCorte = TRUE

\* A first cut of a printer that reported a counter other than 0.
C2_Testigo ==
  /\ out.ruta = "DEBUG CORTE" /\ out.ultimoCorteId = 0
  /\ out.contadoresActuales.lastPageCount = Num(1)
  /\ \E r \in RecienConstruido : rc[r].nuevoCorte.totalPaginasGeneral = 1

\* C3: every saved Cut has totalPaginasGeneral >= 0, whatever the agents
\* reported (negative pageCount included) and whichever cuts were made,
\* first cuts included.
C3_TotalNoNegativo == \A c \in cortes : c.totalPaginasGeneral >= 0

\* The answer 404 of the register-cut.
NoEncontrado(o) == o.ruta = "registrar-corte" /\ o.status = 404

\* C4: a register-cut of a printer id with no Impresora, or of a printer
\* with no LatestState, is answered 404, and neither the lookup of the
\* Impresora nor the step that answers 404 changes a Cut, a LatestState, an
\* Impresora or an Empresa.
C4_NoEncontradoSinCambios ==
  [][ /\ \A r \in RcSlots, id \in ImpresoraIds :
           RegistrarCorteFindImpresora(r, id) =>
             /\ ImpresoraPorId(id) = NoDoc => NoEncontrado(out')
             /\ cortes' = cortes /\ latest' = latest
      /\ \A r \in RcSlots :
           (RegistrarCorteFindLatest(r) /\ LatestDe(rc[r].printerId) = {})
             => (NoEncontrado(out') /\ rc'[r] = RcIdle)
      /\ NoEncontrado(out') =>
           (cortes' = cortes /\ latest' = latest /\ impresoras' = impresoras
            /\ empresas' = empresas /\ nextCorteId' = nextCorteId) ]_vars

\* 404 for a printer that exists and has no LatestState.
C4_Testigo ==
  /\ NoEncontrado(out)
  /\ ImpresoraPorId(out.printerId) # NoDoc
  /\ LatestDe(out.printerId) = {}

\* C5: in every state that ingestions and register-cuts reach, interleaved
\* at every store operation and abandoned after any of them, the
\* ultimoCorteId of every LatestState is null or the _id of a stored Cut.
C5_PunteroValido ==
  \A l \in latest :
    l.ultimoCorteId = 0 \/ \E c \in cortes : c._id = l.ultimoCorteId

\* A register-cut has saved its Cut and not yet moved the pointer, which
\* references an earlier Cut.
C5_Testigo ==
  \E l \in latest, r \in RcSlots :
    /\ rc[r].pc = "update"
    /\ rc[r].printerId = l.printerId
    /\ rc[r].nuevoCorte \in cortes
    /\ l.ultimoCorteId # 0
    /\ l.ultimoCorteId # rc[r].nuevoCorte._id

\* C6: when a register-cut that no other register-cut overlaps answers 200,
\* the LatestState of the printer has ultimoCorteId = the _id of the Cut it
\* created and lastCutDate = the fechaCorte of that Cut.
C6_PunteroTrasCorte ==
  (out.ruta = "registrar-corte" /\ out.status = 200) =>
    /\ CortePorId(out.corteId) # NoDoc
    /\ LatestDe(out.printerId) # {}
    /\ \A l \in LatestDe(out.printerId) :
         /\ l.ultimoCorteId = out.corteId
         /\ l.lastCutDate = CortePorId(out.corteId).fechaCorte

\* The answer 200 arrives after the clock moved on from the creation of the
\* Cut.
C6_Testigo ==
  /\ out.ruta = "registrar-corte" /\ out.status = 200
  /\ CortePorId(out.corteId) # NoDoc
  /\ CortePorId(out.corteId).fechaCorte < now

\* C7: the suppliesInicio of a Cut built on a previous Cut is the
\* suppliesFin of that Cut, the suppliesInicio of a first Cut is empty, and
\* the suppliesFin of every Cut is the lastSupplies of the LatestState the
\* register-cut read.
C7_SuministrosEncadenados ==
  (out.ruta = "DEBUG CORTE") =>
    /\ RecienConstruido # {}
    /\ \A r \in RecienConstruido :
         LET n == rc[r].nuevoCorte IN
         /\ n.suppliesInicio =
              (IF out.tieneUltimoCorte
               THEN CortePorId(out.ultimoCorteId).suppliesFin ELSE << >>)
         /\ \A l \in LatestDe(out.printerId) : n.suppliesFin = l.lastSupplies

\* A second Cut whose supplies at the start differ from those at the end.
C7_Testigo ==
  /\ out.ruta = "DEBUG CORTE" /\ out.tieneUltimoCorte
  /\ \E r \in RecienConstruido :
       /\ rc[r].nuevoCorte.suppliesInicio # << >>
       /\ rc[r].nuevoCorte.suppliesFin = << >>

\* C8: a register-cut that follows another of the same printer with no
\* ingestion in between builds a second Cut, with another _id, whose
\* contadorInicioGeneral and contadorFinGeneral are both the
\* contadorFinGeneral of the first and whose totalPaginasGeneral is 0; and
\* every save adds one document to the Cuts.
C8_NoIdempotente ==
  [][ /\ \A r \in RcSlots :
           ( /\ RegistrarCorteFindCorte(r)
             /\ ~rc[r].ingestaTrasLeer
             /\ sinIngesta[rc[r].printerId] # 0
             /\ sinIngesta[rc[r].printerId] = rc[r].latest.ultimoCorteId
             /\ CortePorId(rc[r].latest.ultimoCorteId) # NoDoc )
           => LET primero == CortePorId(rc[r].latest.ultimoCorteId)
                  segundo == rc'[r].nuevoCorte
              IN /\ segundo._id # primero._id
                 /\ \A c \in cortes : c._id # segundo._id
                 /\ segundo.contadorInicioGeneral = primero.contadorFinGeneral
                 /\ segundo.contadorFinGeneral = primero.contadorFinGeneral
                 /\ segundo.totalPaginasGeneral = 0
      /\ \A r \in RcSlots :
           RegistrarCorteSave(r) =>
             Cardinality(cortes') = Cardinality(cortes) + 1 ]_vars

\* Two Cuts of one printer are stored, the second a zero-page copy of the
\* end of the first, and no ingestion has arrived since.
C8_Testigo ==
  \E a \in cortes, b \in cortes :
    /\ a._id < b._id
    /\ a.printerId = b.printerId
    /\ sinIngesta[b.printerId] = b._id
    /\ a.contadorFinGeneral # 0
    /\ b.contadorInicioGeneral = a.contadorFinGeneral
    /\ b.contadorFinGeneral = a.contadorFinGeneral
    /\ b.totalPaginasGeneral = 0
    /\ \E l \in LatestDe(b.printerId) : l.ultimoCorteId = b._id

\* C9: register-cuts of one printer are not serialised.  Every Cut that is
\* not a first cut starts at the contadorFinGeneral of a Cut of the same
\* printer stored before it, whichever requests overlap; and two
\* overlapping requests that read the same previous Cut store two Cuts on
\* it, of which the LatestState references one.
C9_SinExclusion ==
  /\ \A c \in cortes :
       c.periodo.texto = "rango" =>
         \E p \in cortes : /\ p._id < c._id
                           /\ p.printerId = c.printerId
                           /\ c.contadorInicioGeneral = p.contadorFinGeneral
  /\ \A r \in RcSlots, q \in RcSlots :
       (r # q /\ rc[r].pc = "update" /\ rc[q].pc = "update") =>
         /\ rc[r].nuevoCorte._id # rc[q].nuevoCorte._id
         /\ {rc[r].nuevoCorte, rc[q].nuevoCorte} \subseteq cortes

\* One of two overlapping requests has answered 200 and the pointer is on
\* its Cut; the other has saved a Cut on the same previous Cut, recording
\* the same pages, and has yet to move the pointer.
C9_Testigo ==
  \E p \in cortes, a \in cortes, q \in RcSlots :
    /\ out.ruta = "registrar-corte" /\ out.status = 200
    /\ out.corteId = a._id
    /\ rc[q].pc = "update"
    /\ rc[q].nuevoCorte \in cortes
    /\ rc[q].nuevoCorte._id # a._id
    /\ a.printerId = p.printerId /\ rc[q].printerId = p.printerId
    /\ p.contadorFinGeneral # a.contadorFinGeneral
    /\ a.contadorInicioGeneral = p.contadorFinGeneral
    /\ rc[q].nuevoCorte.contadorInicioGeneral = p.contadorFinGeneral
    /\ rc[q].nuevoCorte.contadorFinGeneral = a.contadorFinGeneral
    /\ a.totalPaginasGeneral > 0
    /\ rc[q].nuevoCorte.totalPaginasGeneral = a.totalPaginasGeneral
    /\ \A l \in LatestDe(p.printerId) : l.ultimoCorteId = a._id

\* C10: no step changes or removes a stored Cut, except the deletion of the
\* Empresa the Cut belongs to.
C10_SoloSeAgregan ==
  [][ \A c \in cortes :
        \/ c \in cortes'
        \/ \E e \in empresas : e._id = c.empresaId /\ e \notin empresas' ]_vars

\* The PDF of a Cut has been produced after a later ingestion moved the
\* counter of its printer; the Cut is as it was saved.
C10_Testigo ==
  /\ out.ruta = "generar-pdf" /\ out.status = 200
  /\ \E c \in cortes, l \in latest :
       /\ l.printerId = c.printerId
       /\ l.ultimoCorteId = c._id
       /\ c.periodo.texto = "rango"
       /\ ContadorLeido(l.lastPageCount) # c.contadorFinGeneral

\* C11: a Cut built while the ultimoCorteId of the LatestState was set
\* carries a reference to that Cut, so that the Cuts of a printer can be
\* walked backward from the pointer of its LatestState to its first Cut.
C11_ReferenciaAlAnterior ==
  (out.ruta = "DEBUG CORTE" /\ out.ultimoCorteId # 0) =>
    \A r \in RecienConstruido :
      ReferenciaAnterior(rc[r].nuevoCorte) = out.ultimoCorteId

\* C12: derived online is false whenever the online flag of the LatestState
\* is false, whatever its lastSeenAt and whatever the instant of the
\* listing, right after an ingestion with snmpOk false and a fresh
\* timestamp included.
C12_OnlineFalseManda ==
  (out.ruta = "impresoras") =>
    \A fila \in out.data :
      (fila.latest # NoDoc /\ fila.latest.online = FALSE) =>
        (fila.online = FALSE /\ fila.latest.derivedOnline = FALSE)

\* A listing made at the very instant the LatestState was last seen, its
\* online flag false.
C12_Testigo ==
  /\ out.ruta = "impresoras"
  /\ \E fila \in out.data :
       /\ fila.latest # NoDoc
       /\ fila.latest.online = FALSE
       /\ fila.latest.lastSeenAt = now
       /\ fila.online = FALSE

\* C13: for a LatestState with a parsable lastSeenAt and an online flag
\* that is not false, derived online is true exactly when
\* now - lastSeenAt <= ONLINE_STALE_MS: true at an age equal to the
\* threshold, false one instant later.
C13_UmbralInclusivo ==
  ( /\ out.ruta = "computeDerivedOnline"
    /\ out.latest # NoDoc
    /\ "lastSeenAt" \in DOMAIN out.latest
    /\ out.latest.lastSeenAt >= 1
    /\ ("online" \notin DOMAIN out.latest \/ out.latest.online = TRUE) )
  => (out.online = (out.now - out.latest.lastSeenAt <= ONLINE_STALE_MS))

\* The age equals the threshold and the result is true.
C13_Testigo ==
  /\ out.ruta = "computeDerivedOnline"
  /\ out.latest # NoDoc
  /\ "lastSeenAt" \in DOMAIN out.latest
  /\ out.latest.lastSeenAt >= 1
  /\ "online" \in DOMAIN out.latest /\ out.latest.online = TRUE
  /\ out.now - out.latest.lastSeenAt = ONLINE_STALE_MS
  /\ out.online = TRUE

\* C14: derived online is false, and is a boolean, when there is no
\* LatestState, when the LatestState has no lastSeenAt, and when its
\* lastSeenAt cannot be parsed.
C14_SinDatosOffline ==
  (out.ruta = "computeDerivedOnline") =>
    /\ out.online \in BOOLEAN
    /\ ( \/ out.latest = NoDoc
         \/ "lastSeenAt" \notin DOMAIN out.latest
         \/ out.latest.lastSeenAt = 0
         \/ out.latest.lastSeenAt = FechaInvalida ) => out.online = FALSE

\* A LatestState flagged online with no lastSeenAt, asked at the first
\* instant: the answer is false.
C14_Testigo ==
  /\ out.ruta = "computeDerivedOnline"
  /\ out.latest # NoDoc
  /\ "lastSeenAt" \in DOMAIN out.latest /\ out.latest.lastSeenAt = 0
  /\ "online" \in DOMAIN out.latest /\ out.latest.online = TRUE
  /\ out.now = 1
  /\ out.online = FALSE

\* C15: the listing writes nothing, and it reports as offline every printer
\* whose lastSeenAt is more than ONLINE_STALE_MS behind the present,
\* whatever online flag its LatestState stores.
C15_DerivadoAlLeer ==
  [][ \A e \in EmpresaIds :
        ListarImpresoras(e) =>
          /\ latest' = latest /\ impresoras' = impresoras
          /\ cortes' = cortes /\ empresas' = empresas
          /\ \A fila \in out'.data :
               (fila.latest # NoDoc
                  /\ now > fila.latest.lastSeenAt + ONLINE_STALE_MS)
               => fila.online = FALSE ]_vars

\* A printer listed as offline whose stored LatestState is the one the last
\* ingestion wrote, online flag true.
C15_Testigo ==
  /\ out.ruta = "impresoras"
  /\ \E fila \in out.data, l \in latest :
       /\ fila.latest # NoDoc
       /\ l.printerId = fila.impresora._id
       /\ l.online = TRUE
       /\ l.lastSeenAt = fila.latest.lastSeenAt
       /\ now > l.lastSeenAt + ONLINE_STALE_MS
       /\ fila.online = FALSE

\* C16: an ingestion with a serial resolves the Impresora by empresaId and
\* serial alone: with no Impresora of the tenant on that serial it inserts
\* one, also when an Impresora of the tenant is on the reported host, and
\* leaves every stored Impresora as it was; an ingestion without a serial
\* resolves by empresaId and host.
C16_ResuelvePorSerial ==
  [][ IngestaUpsertImpresora =>
        LET b == ing.body
            delTenant == {d \in impresoras : d.empresaId = ing.empresaId}
            conSerial == {d \in delTenant : d.serial = b.serial}
            conHost == {d \in delTenant : d.host = b.host}
            insertada == /\ impresoras \subseteq impresoras'
                         /\ Cardinality(impresoras') = Cardinality(impresoras) + 1
                         /\ \A d \in impresoras : d._id # ing'.printerId
        IN IF b.serial # Nulo /\ b.serial # ""
           THEN IF conSerial = {} THEN insertada
                ELSE \E d \in conSerial : d._id = ing'.printerId
           ELSE IF conHost = {} THEN insertada
                ELSE \E d \in conHost : d._id = ing'.printerId ]_vars

\* C17: whatever ingestions have run, no two Impresoras of a tenant have the
\* same non-empty serial, and no two Impresoras of a tenant without serial
\* have the same host.
C17_IdentidadUnica ==
  \A d1 \in impresoras, d2 \in impresoras :
    (d1._id # d2._id /\ d1.empresaId = d2.empresaId) =>
      /\ ~(d1.serial # Nulo /\ d1.serial # "" /\ d1.serial = d2.serial)
      /\ ~(d1.serial = Nulo /\ d2.serial = Nulo /\ d1.host = d2.host)

\* C18: the write of an ingestion leaves the one LatestState of the printer
\* with the counters, supplies, lastSeenAt, online and lowToner of that
\* report, and answers 200, whether or not the ts of the report is older
\* than the stored lastSeenAt; the pointer to the last Cut is not touched.
C18_UltimoReporteGana ==
  [][ IngestaUpsertLatest =>
        LET b == ing.body
            antes == {l \in latest : l.printerId = ing.printerId}
            despues == {l \in latest' : l.printerId = ing.printerId}
        IN /\ Cardinality(despues) = 1
           /\ \A l \in despues :
                /\ l.lastPageCount =
                     (IF b.pageCount.t = "number" THEN b.pageCount ELSE JsNull)
                /\ l.lastPageMono = JsNull /\ l.lastPageColor = JsNull
                /\ l.lastSupplies = b.supplies
                /\ l.lastSeenAt = b.ts
                /\ l.online = ( \/ b.pageCount.t = "number"
                                \/ b.supplies # << >>
                                \/ \E f \in {b.sysName, b.sysDescr, b.serial,
                                             b.model} : f # Nulo /\ f # "" )
                /\ l.lowToner =
                     (\E i \in DOMAIN b.supplies :
                        b.supplies[i].level * 100 <= 20 * b.supplies[i].max)
                /\ \A a \in antes : l.ultimoCorteId = a.ultimoCorteId
           /\ out'.ruta = "metrics" /\ out'.status = 200 ]_vars

\* A report stamped before the stored lastSeenAt has resolved its Impresora
\* and is about to be written over the newer LatestState.
C18_Testigo ==
  /\ ing.pc = "upsertLatest"
  /\ \E l \in latest : /\ l.printerId = ing.printerId
                       /\ ing.body.ts < l.lastSeenAt
                       /\ ing.body.pageCount # l.lastPageCount

\* C19: an ingestion without a token is answered 401, with a token of no
\* Empresa 403, and with a valid token and no host 400; in the three cases
\* the request ends there and no Impresora and no LatestState is written.
C19_RechazosSinCambios ==
  [][ \A token \in Tokens, b \in BodiesCarrera(now) :
        IngestaAutenticar(token, b) =>
          LET conocida == \E e \in empresas : e.apiKey = token IN
          /\ token = Nulo => out' = [ruta |-> "metrics", status |-> 401]
          /\ (token # Nulo /\ ~conocida) =>
               out' = [ruta |-> "metrics", status |-> 403]
          /\ (token # Nulo /\ conocida /\ b.host = Nulo) =>
               out' = [ruta |-> "metrics", status |-> 400]
          /\ (token = Nulo \/ ~conocida \/ b.host = Nulo) =>
               /\ impresoras' = impresoras /\ latest' = latest
               /\ ing' = [pc |-> "idle"] ]_vars

\* 400 answered with Impresoras and LatestStates in the store.
C19_Testigo ==
  /\ out = [ruta |-> "metrics", status |-> 400]
  /\ impresoras # {} /\ latest # {}

\* C20: in every state each Impresora has exactly one LatestState, between
\* the two writes of an ingestion and after an ingestion whose second write
\* failed as well.
C20_UnLatestPorImpresora ==
  \A d \in impresoras : Cardinality(LatestDe(d._id)) = 1

\* C21: the online flag an ingestion stores is true exactly when the report
\* has a numeric pageCount, or a non-empty supplies list, or one of the
\* strings serial, model, sysName, sysDescr, printerName.
C21_OnlineSegunReporte ==
  [][ IngestaUpsertLatest =>
        LET b == ing.body IN
        \A l \in {x \in latest' : x.printerId = ing.printerId} :
          l.online = ( \/ b.pageCount.t = "number"
                       \/ b.supplies # << >>
                       \/ \E f \in {b.serial, b.model, b.sysName, b.sysDescr,
                                    b.printerName} : f # Nulo /\ f # "" ) ]_vars

\* C22: the lowToner flag an ingestion stores is true exactly when some
\* supply has level*100 <= 20*max with max present and positive, or
\* level <= 20 with max absent or not positive: {level:15,max:100} true,
\* {level:25,max:100} false, {level:20,max:100} true, {level:18} true, no
\* supplies false.
C22_LowTonerSegunReporte ==
  [][ IngestaUpsertLatest =>
        LET b == ing.body
            bajo(s) == /\ "level" \in DOMAIN s
                       /\ IF "max" \in DOMAIN s /\ s.max > 0
                          THEN s.level * 100 <= 20 * s.max
                          ELSE s.level <= 20
        IN \A l \in {x \in latest' : x.printerId = ing.printerId} :
             /\ l.lowToner = (\E i \in DOMAIN b.supplies : bajo(b.supplies[i]))
             /\ b.supplies = <<Toner15>> => l.lowToner = TRUE
             /\ b.supplies = <<Toner25>> => l.lowToner = FALSE
             /\ b.supplies = <<Toner20>> => l.lowToner = TRUE
             /\ b.supplies = <<Toner18SinMax>> => l.lowToner = TRUE
             /\ b.supplies = << >> => l.lowToner = FALSE ]_vars

\* A supply at 30 of 200, above 20 in level and below 20 %, has been stored
\* as low.
C22_Testigo ==
  /\ out = [ruta |-> "metrics", status |-> 200]
  /\ \E l \in latest : l.lastSupplies = <<Toner30De200>> /\ l.lowToner = TRUE

\* The Impresora documents of a tenant, and what hangs from them.
ImpresorasDe(e) == {d._id : d \in {x \in impresoras : x.empresaId = e}}
LatestDeEmpresa(e) == {l \in latest : l.printerId \in ImpresorasDe(e)}
CortesDeEmpresa(e) == {c \in cortes : c.printerId \in ImpresorasDe(e)}

\* C23: when the deletion of a tenant completes, no Impresora, LatestState
\* or Cut of that tenant's printers is left, and nothing of another tenant
\* has been removed.
C23_BorradoCompleto ==
  [][ \A id \in EmpresaIdsDos :
        (DeleteEmpresa(id) /\ \E e \in empresas : e._id = id) =>
          /\ \A d \in impresoras' : d.empresaId # id
          /\ \A l \in latest' : l.printerId \notin ImpresorasDe(id)
          /\ \A c \in cortes' : c.printerId \notin ImpresorasDe(id)
          /\ \A otra \in EmpresaIdsDos \ {id} :
               /\ {d \in impresoras : d.empresaId = otra} \subseteq impresoras'
               /\ LatestDeEmpresa(otra) \subseteq latest'
               /\ CortesDeEmpresa(otra) \subseteq cortes' ]_vars

\* C30: an ingestion made with a tenant's key creates or updates only an
\* Impresora of that tenant and its LatestState, also when another tenant
\* has an Impresora with the same host or serial; the Impresoras,
\* LatestStates and Cuts of the other tenants stay as they are.
C30_IngestaAislada ==
  [][ (IngestaUpsertImpresora \/ IngestaUpsertLatest) =>
        /\ \A d \in impresoras' \ impresoras : d.empresaId = ing.empresaId
        /\ \A d \in impresoras \ impresoras' : d.empresaId = ing.empresaId
        /\ \A l \in (latest' \ latest) \cup (latest \ latest') :
             /\ l.printerId = ing.printerId
             /\ \A d \in impresoras : d._id = l.printerId =>
                                        d.empresaId = ing.empresaId
        /\ cortes' = cortes
        /\ \A otra \in EmpresaIdsDos \ {ing.empresaId} :
             /\ {d \in impresoras : d.empresaId = otra}
                  = {d \in impresoras' : d.empresaId = otra}
             /\ LatestDeEmpresa(otra) = LatestDeEmpresa(otra)'
             /\ CortesDeEmpresa(otra) = CortesDeEmpresa(otra)' ]_vars

\* Two tenants each have an Impresora with the same host and serial, each
\* with its LatestState, one of them with a Cut, and an ingestion has just
\* been answered.
C30_Testigo ==
  /\ out = IngestaRes(200)
  /\ \E a \in impresoras, b \in impresoras :
       /\ a.empresaId # b.empresaId
       /\ a.host = b.host /\ a.serial = "s1" /\ b.serial = "s1"
       /\ LatestDe(a._id) # {} /\ LatestDe(b._id) # {}
       /\ \E c \in cortes : c.printerId = a._id

\* C24: a report is rendered from the latest Cut as it is stored: the start
\* counter, end counter, total and period label handed to the renderer are
\* those of the Cut the LatestState points to, whatever was ingested after
\* the cut and whether or not the Cut is the first of its printer.
C24_PdfDelCorteGuardado ==
  (out.ruta = "generar-pdf" /\ out.status = 200) =>
    \E l \in LatestDe(out.impresora._id) :
      LET c == CortePorId(l.ultimoCorteId) IN
        /\ out.datosPDF._id = c._id
        /\ out.datosPDF.contadorInicioGeneral = c.contadorInicioGeneral
        /\ out.datosPDF.contadorFinGeneral = c.contadorFinGeneral
        /\ out.datosPDF.totalPaginasGeneral = c.totalPaginasGeneral
        /\ out.datosPDF.periodo = c.periodo

\* C25: a report asked for a printer that has no LatestState, or whose
\* LatestState points to no Cut, is answered Not-Found (404): nothing is
\* handed to the renderer, no Cut is made up, and no document changes.
C25_PdfSinCorteNoEncontrado ==
  [][ \A id \in ImpresoraIds :
        (GenerarPdf(id) /\ \A l \in LatestDe(id) : l.ultimoCorteId = 0) =>
          /\ out'.ruta = "generar-pdf" /\ out'.status = 404
          /\ "datosPDF" \notin DOMAIN out'
          /\ cortes' = cortes /\ latest' = latest
          /\ impresoras' = impresoras /\ empresas' = empresas
          /\ nextCorteId' = nextCorteId ]_vars

\* C26: no step of an ingestion changes the ultimoCorteId or the lastCutDate
\* of a LatestState (a LatestState it inserts has neither), and none creates
\* or changes a Cut; so after any ingestions that follow a register-cut the
\* LatestState still points to the Cut of that register-cut.
C26_IngestaNoTocaCortes ==
  [][ (ing' # ing \/ out'.ruta = "metrics") =>
        /\ cortes' = cortes
        /\ nextCorteId' = nextCorteId
        /\ \A l \in latest : \E m \in latest' :
             /\ m.printerId = l.printerId
             /\ m.ultimoCorteId = l.ultimoCorteId
             /\ m.lastCutDate = l.lastCutDate
        /\ \A m \in latest' :
             \/ \E l \in latest : /\ l.printerId = m.printerId
                                  /\ l.ultimoCorteId = m.ultimoCorteId
                                  /\ l.lastCutDate = m.lastCutDate
             \/ /\ LatestDe(m.printerId) = {}
                /\ m.ultimoCorteId = 0 /\ m.lastCutDate = 0 ]_vars

\* An ingestion has been answered 200 for a printer whose LatestState points
\* to a Cut and now holds another counter than the Cut's end.
C26_Testigo ==
  /\ out = IngestaRes(200)
  /\ \E l \in latest :
       /\ l.ultimoCorteId # 0
       /\ CortePorId(l.ultimoCorteId) # NoDoc
       /\ l.lastPageCount # Num(CortePorId(l.ultimoCorteId).contadorFinGeneral)

\* C27: the pointer update of a register-cut writes ultimoCorteId and
\* lastCutDate and nothing else: counters, supplies, lastSeenAt, online and
\* lowToner of every LatestState are after it what they were before it, so
\* what an ingestion stored between the handler's read and this update stays.
C27_SoloElPuntero ==
  [][ \A r \in RcSlots :
        RegistrarCorteUpdate(r) =>
          LET sinPuntero(x) == [x EXCEPT !.ultimoCorteId = 0, !.lastCutDate = 0]
          IN /\ {sinPuntero(l) : l \in latest} = {sinPuntero(m) : m \in latest'}
             /\ Cardinality(latest') = Cardinality(latest)
             /\ \A m \in latest' \ latest :
                  /\ m.printerId = rc[r].printerId
                  /\ m.ultimoCorteId = rc[r].nuevoCorte._id
                  /\ m.lastCutDate = rc[r].nuevoCorte.fechaCorte ]_vars

\* A register-cut has been answered 200 and the LatestState it moved to the
\* new Cut holds a counter reported after the handler's read.
C27_Testigo ==
  /\ out.ruta = "registrar-corte" /\ out.status = 200
  /\ \E l \in LatestDe(out.printerId) :
       /\ l.ultimoCorteId = out.corteId
       /\ CortePorId(out.corteId) # NoDoc
       /\ l.lastPageCount # Num(CortePorId(out.corteId).contadorFinGeneral)

\* C28: the contadorFinGeneral and the suppliesFin of a Cut come from one
\* read of the LatestState: the two belong to one and the same report, in
\* every Cut stored and in every Cut a request has constructed.
C28_ParDeUnaLectura ==
  LET deUnReporte(c) ==
        \E b \in BodiesPareja(now) :
          /\ Num(c.contadorFinGeneral) = b.pageCount
          /\ c.suppliesFin = b.supplies
  IN /\ \A c \in cortes : deUnReporte(c)
     /\ \A r \in RcSlots :
          rc[r].pc \in {"save", "update"} => deUnReporte(rc[r].nuevoCorte)

\* A request has just constructed a Cut after looking up the previous one,
\* and the stored LatestState already holds another report than the one the
\* request read.
C28_Testigo ==
  /\ out.ruta = "DEBUG CORTE"
  /\ \E r \in RcSlots :
       /\ rc[r].pc = "save"
       /\ rc[r].nuevoCorte.suppliesInicio # << >>
       /\ \E l \in LatestDe(rc[r].printerId) :
            /\ l.lastPageCount # Num(rc[r].nuevoCorte.contadorFinGeneral)
            /\ l.lastSupplies # rc[r].nuevoCorte.suppliesFin

\* C29: a store operation of a register-cut that rejects is answered 500 and
\* the request ends there, with no retry and no rollback: before the save of
\* the Cut the stores are as they were and the Cut is not stored; after the
\* save, when the pointer update rejects, the new Cut stays stored and no
\* LatestState points to it, the pointer staying where it was; and the next
\* register-cut starts from the end counter of the Cut the pointer names.
C29_FallaSinRollback ==
  [][ /\ \A r \in RcSlots :
           RegistrarCorteFalla(r) =>
             /\ out' = RcRes(500, rc[r].printerId)
             /\ rc'[r] = RcIdle
             /\ cortes' = cortes /\ latest' = latest
             /\ impresoras' = impresoras /\ empresas' = empresas
             /\ rc[r].pc = "save" =>
                  \A c \in cortes' : c._id # rc[r].nuevoCorte._id
             /\ rc[r].pc \in {"findLatest", "findCorte"} =>
                  \A c \in cortes' : c._id < nextCorteId
             /\ rc[r].pc = "update" =>
                  /\ rc[r].nuevoCorte \in cortes'
                  /\ \A l \in latest' : l.ultimoCorteId # rc[r].nuevoCorte._id
      /\ \A r \in RcSlots :
           RegistrarCorteFindCorte(r) =>
             LET anterior == CortePorId(rc[r].latest.ultimoCorteId) IN
               anterior # NoDoc =>
                 rc'[r].nuevoCorte.contadorInicioGeneral
                   = anterior.contadorFinGeneral ]_vars

\* After a pointer update that rejected, the next register-cut has built its
\* Cut: the stored Cut 2 is named by no LatestState and ends on another
\* counter than Cut 1, which the pointer names and from which Cut 3 starts.
C29_Testigo ==
  /\ out.ruta = "DEBUG CORTE"
  /\ \E r \in RcSlots, huerfano \in cortes, l \in latest :
       /\ rc[r].pc = "save"
       /\ rc[r].printerId = l.printerId
       /\ huerfano.printerId = l.printerId
       /\ l.ultimoCorteId # 0
       /\ l.ultimoCorteId < huerfano._id
       /\ huerfano._id < rc[r].nuevoCorte._id
       /\ CortePorId(l.ultimoCorteId).contadorFinGeneral
            # huerfano.contadorFinGeneral
       /\ rc[r].nuevoCorte.contadorInicioGeneral
            = CortePorId(l.ultimoCorteId).contadorFinGeneral

C32_ChequeosDeAcuerdo ==
  \A u \in usuarios :
    LET login == LicenciaLogin(u, now).status = 200
        get == LicenciaGet(u, now).puedeAcceder
        middleware == LicenciaMiddleware(u, now).status = 200
    IN /\ login = get
       /\ get = middleware
       /\ (out.ruta = "login" /\ out.email = u.email /\ out.status # 401) =>
            (out.status = 200) = get
       /\ (out.ruta = "verificar-licencia" /\ out.empresaId = u.empresaId) =>
            out.puedeAcceder = middleware
       /\ (out.ruta = "verificarLicencia" /\ out.empresaId = u.empresaId) =>
            (out.status = 200) = login

\* The endpoint has just granted access to a user on a paid licence that has
\* not run out, with no trial.
C32_Testigo ==
  /\ out.ruta = "verificar-licencia" /\ out.status = 200 /\ out.puedeAcceder
  /\ \E u \in usuarios :
       /\ u.empresaId = out.empresaId
       /\ u.activo /\ ~u.licenciaTrial
       /\ "fechaExpiracionLicencia" \in DOMAIN u
       /\ u.fechaExpiracionLicencia > now

\* C33: a manual activation sets the activo flag of the user and nothing
\* else: it sets no licence expiry and leaves licenciaTrial as it is; so a
\* user registered through /api/registro whose trial has run out is denied
\* login with TRIAL_EXPIRADO, activated or not.
C33_ActivarSoloActivo ==
  [][ /\ \A e \in Emails :
           Activar(e) =>
             /\ usuarios' = {IF u.email = e THEN [u EXCEPT !.activo = TRUE]
                             ELSE u : u \in usuarios}
             /\ \A v \in usuarios' : /\ v.fechaExpiracionLicencia = 0
                                     /\ v.licenciaTrial
      /\ \A e \in Emails, p \in Passwords :
           Login(e, p, "c1") =>
             \A u \in usuarios :
               (u.email = e /\ u.password = Hash(p)
                /\ u.fechaExpiracionTrial <= now) =>
                 /\ out'.status = 403
                 /\ out'.codigo = "TRIAL_EXPIRADO" ]_vars

\* A user registered on the starter plan and activated since has just been
\* denied login with TRIAL_EXPIRADO.
C33_Testigo ==
  /\ out.ruta = "login" /\ out.status = 403 /\ out.codigo = "TRIAL_EXPIRADO"
  /\ \E u \in usuarios :
       /\ u.email = out.email
       /\ u.plan = "starter" /\ u.activo
       /\ u.fechaExpiracionTrial > u.fechaRegistro

\* Folder c lies below folder id in the set cs: its chain of parentId
\* reaches id in at most n steps.
RECURSIVE DebajoDe(_, _, _, _)
DebajoDe(c, id, cs, n) ==
  /\ n > 0
  /\ c.parentId # 0
  /\ \/ c.parentId = id
     \/ \E p \in cs : p._id = c.parentId /\ DebajoDe(p, id, cs, n - 1)

====
